---- MODULE Spec2Model ----
(***************************************************************************)
(* The framework execution engine of AAB (src/worker/lib/openrouter.ts):   *)
(* buildExecutionOrder (Kahn's algorithm over the stored node and edge     *)
(* rows), executeNode (dispatch on the node type) and executeFramework     *)
(* (the runner: input gathering, per-node try/catch, totals, terminal      *)
(* output selection, run-level catch).                                     *)
(*                                                                         *)
(* Strings are TLA+ strings.  A JavaScript object is a function whose      *)
(* DOMAIN is its key set; `undefined` is a key that is not in the DOMAIN.  *)
(* Cost is kept in millionths of a dollar so that it stays an integer.     *)
(***************************************************************************)
EXTENDS Integers, Sequences, FiniteSets, TLC

\* ------------------------------------------------------------------ bounds
MaxNodes == 3
MaxEdges == 2

\* --------------------------------------------------------- generic helpers
Range(s) == {s[i] : i \in 1..Len(s)}

IndexOf(s, x) == IF x \in Range(s) THEN CHOOSE i \in 1..Len(s) : s[i] = x /\ \A j \in 1..(i - 1) : s[j] # x ELSE 0

IsInjective(s) == \A i, j \in 1..Len(s) : s[i] = s[j] => i = j

SeqsUpTo(S, n) == UNION {[1..k -> S] : k \in 0..n}

RECURSIVE SumSeq(_)
SumSeq(s) == IF s = <<>> THEN 0 ELSE Head(s) + SumSeq(Tail(s))

\* ------------------------------------------------------------ JS strings
\* String.prototype.toUpperCase, letter by letter
UpperChar(c) ==
    CASE c = "h" -> "H" [] c = "e" -> "E" [] c = "l" -> "L" [] c = "o" -> "O"
      [] c = "r" -> "R" [] c = "b" -> "B" [] c = "m" -> "M" [] OTHER -> c

\* the letters of s from position i on, upper-cased
RECURSIVE UpperFrom(_, _)
UpperFrom(s, i) ==
    IF i > Len(s) THEN ""
    ELSE UpperChar(SubSeq(s, i, i)) \o UpperFrom(s, i + 1)

toUpperCase(s) == UpperFrom(s, 1)

\* String.prototype.toLowerCase on the letters labels are written with
LowerChar(c) ==
    CASE c = "O" -> "o" [] c = "I" -> "i" [] c = "A" -> "a" [] c = "F" -> "f"
      [] c = "B" -> "b" [] c = "U" -> "u" [] c = "N" -> "n" [] OTHER -> c

RECURSIVE LowerFrom(_, _)
LowerFrom(s, i) ==
    IF i > Len(s) THEN ""
    ELSE LowerChar(SubSeq(s, i, i)) \o LowerFrom(s, i + 1)

toLowerCase(s) == LowerFrom(s, 1)

\* String.prototype.includes
includes(s, sub) ==
    \E i \in 1..(Len(s) - Len(sub) + 1) : SubSeq(s, i, i + Len(sub) - 1) = sub

\* String.prototype.startsWith
startsWith(s, pre) == Len(s) >= Len(pre) /\ SubSeq(s, 1, Len(pre)) = pre

\* Array.prototype.join
RECURSIVE join(_, _)
join(parts, sep) ==
    IF Len(parts) = 0 THEN ""
    ELSE IF Len(parts) = 1 THEN parts[1]
    ELSE parts[1] \o sep \o join(Tail(parts), sep)

\* obj[k] || dflt : a missing key and the empty string are both falsy
OrElse(obj, k, dflt) == IF k \in DOMAIN obj /\ obj[k] # "" THEN obj[k] ELSE dflt

\* ------------------------------------------------- Object.keys ordering
\* A key that is a canonical array index ("1", "2", ...) is enumerated
\* before every other key, in ascending numeric order; the other keys
\* follow in insertion order.
ArrayIndex(k) == CASE k = "1" -> 1 [] k = "2" -> 2 [] OTHER -> -1

RECURSIVE SortIndexKeys(_)
SortIndexKeys(S) ==
    IF S = {} THEN <<>>
    ELSE LET m == CHOOSE k \in S : \A o \in S : ArrayIndex(k) <= ArrayIndex(o)
         IN  <<m>> \o SortIndexKeys(S \ {m})

RECURSIVE Dedup(_)
Dedup(s) ==
    IF s = <<>> THEN <<>>
    ELSE LET init == Dedup(SubSeq(s, 1, Len(s) - 1))
         IN  IF s[Len(s)] \in Range(init) THEN init ELSE Append(init, s[Len(s)])

ObjectKeys(inserted) ==
    LET ks == Dedup(inserted)
    IN  SortIndexKeys({k \in Range(ks) : ArrayIndex(k) >= 0})
          \o SelectSeq(ks, LAMBDA k : ArrayIndex(k) < 0)

\* ------------------------------------------------- buildExecutionOrder
\* An edge row carries source_id and target_id (the columns of the edges
\* table), so `edge.source_id || edge.source` is source_id.
NodeIds(nodes) == [i \in 1..Len(nodes) |-> nodes[i].id]

\* adjacency[edge.source].push(...) on a source that is no node id reads
\* `push` of undefined: a TypeError, raised at the first such edge.
PushOfUndefined == "Cannot read properties of undefined (reading 'push')"

\* the build that also rejects an edge to a missing target
BuildThrowsOnEitherEnd(nodes, edges) ==
    \E i \in 1..Len(edges) :
        \/ edges[i].source_id \notin Range(NodeIds(nodes))
        \/ edges[i].target_id \notin Range(NodeIds(nodes))

BuildThrows(nodes, edges) ==
    \E i \in 1..Len(edges) : edges[i].source_id \notin Range(NodeIds(nodes))

\* lines 139-142: every node id starts with in-degree 0 and no successor
InitialGraph(nodes) ==
    [inDegree  |-> [id \in Range(NodeIds(nodes)) |-> 0],
     adjacency |-> [id \in Range(NodeIds(nodes)) |-> <<>>]]

\* lines 145-148, edge by edge.  inDegree[target]++ on a target that is no
\* node id stores NaN under that key; NaN never equals 0, so such a key is
\* never queued and is left out of inDegree here.
RECURSIVE BuildGraph(_, _)
BuildGraph(g, edges) ==
    IF edges = <<>> THEN g
    ELSE LET e == Head(edges)
             adj == [g.adjacency EXCEPT ![e.source_id] = Append(@, e.target_id)]
             deg == IF e.target_id \in DOMAIN g.inDegree
                    THEN [g.inDegree EXCEPT ![e.target_id] = @ + 1]
                    ELSE g.inDegree
         IN  BuildGraph([inDegree |-> deg, adjacency |-> adj], Tail(edges))

\* Relax with the test of line 165 off by one: a successor is queued when
\* its in-degree drops to 1
RECURSIVE RelaxOffByOne(_, _, _)
RelaxOffByOne(neighbors, inDegree, queue) ==
    IF neighbors = <<>> THEN [inDegree |-> inDegree, queue |-> queue]
    ELSE LET n == Head(neighbors)
         IN  IF n \notin DOMAIN inDegree
             THEN RelaxOffByOne(Tail(neighbors), inDegree, queue)
             ELSE LET deg == [inDegree EXCEPT ![n] = @ - 1]
                  IN  RelaxOffByOne(Tail(neighbors), deg,
                                    IF deg[n] = 1 THEN Append(queue, n) ELSE queue)

\* lines 163-168: the successors of the dequeued node, in adjacency order
RECURSIVE Relax(_, _, _)
Relax(neighbors, inDegree, queue) ==
    IF neighbors = <<>> THEN [inDegree |-> inDegree, queue |-> queue]
    ELSE LET n == Head(neighbors)
         IN  IF n \notin DOMAIN inDegree
             THEN Relax(Tail(neighbors), inDegree, queue)
             ELSE LET deg == [inDegree EXCEPT ![n] = @ - 1]
                  IN  Relax(Tail(neighbors), deg,
                            IF deg[n] = 0 THEN Append(queue, n) ELSE queue)

\* lines 158-169: the while loop over the queue
RECURSIVE KahnLoop(_, _, _, _)
KahnLoop(queue, order, inDegree, adjacency) ==
    IF queue = <<>> THEN order
    ELSE LET current == Head(queue)
             r == Relax(adjacency[current], inDegree, Tail(queue))
         IN  KahnLoop(r.queue, Append(order, current), r.inDegree, adjacency)

\* the queue seeded with every key, the test of line 153 left out
SeedQueueEveryKey(nodes, inDegree) == ObjectKeys(NodeIds(nodes))

\* lines 151-156: the queue is seeded in Object.keys(inDegree) order
SeedQueue(nodes, inDegree) ==
    SelectSeq(ObjectKeys(NodeIds(nodes)), LAMBDA id : inDegree[id] = 0)

buildExecutionOrder(nodes, edges) ==
    LET g == BuildGraph(InitialGraph(nodes), edges)
    IN  KahnLoop(SeedQueue(nodes, g.inDegree), <<>>, g.inDegree, g.adjacency)

\* --------------------------------------------------------- callOpenRouter
DefaultModel == "meta-llama/llama-3.3-70b-instruct:free"

\* the keys of MODEL_PRICING, each priced { input: 0, output: 0 }
PricedModels ==
    {"meta-llama/llama-3.3-70b-instruct:free",
     "google/gemini-2.5-pro-exp-03-25:free",
     "deepseek/deepseek-chat-v3-0324:free",
     "deepseek/deepseek-r1-zero:free",
     "mistralai/mistral-small-3.1-24b-instruct:free",
     "nvidia/llama-3.1-nemotron-nano-8b-v1:free",
     "qwen/qwen3-coder-480b-a35b:free"}

\* MODEL_PRICING[model] || { input: 1, output: 2 }, dollars per million tokens
Pricing(model) ==
    IF model \in PricedModels THEN [input |-> 0, output |-> 0]
    ELSE [input |-> 1, output |-> 2]

\* What the gateway can answer to a prompt: the body of a 2xx answer (content
\* is data.choices?.[0]?.message?.content || '', the token counts are
\* usage.<field> || 0) and the time the call took.  An agent that answers with
\* the upper-cased prompt, one that answers "B" at once, and an answer with
\* no choices and no usage.
GatewayAnswers(input) ==
    {[content |-> toUpperCase(input), prompt_tokens |-> 12, completion_tokens |-> 3,
      total_tokens |-> 15, latencyMs |-> 40],
     [content |-> "B", prompt_tokens |-> 4, completion_tokens |-> 1,
      total_tokens |-> 5, latencyMs |-> 0],
     [content |-> "", prompt_tokens |-> 0, completion_tokens |-> 0,
      total_tokens |-> 0, latencyMs |-> 40]}

\* lines 64-84; cost in millionths of a dollar
OpenRouterResponse(model, data) ==
    [content |-> data.content,
     model   |-> model,
     usage   |-> [promptTokens     |-> data.prompt_tokens,
                  completionTokens |-> data.completion_tokens,
                  totalTokens      |-> data.total_tokens,
                  cost |-> data.prompt_tokens * Pricing(model).input
                             + data.completion_tokens * Pricing(model).output]]

\* lines 59-62 (a non-2xx answer with the given body) and a rejected fetch
GatewayFailures ==
    {[message |-> "OpenRouter error: rate limited", latencyMs |-> 40],
     [message |-> "fetch failed", latencyMs |-> 0]}

\* ------------------------------------------------------------ executeNode
\* new Function('input', code)(input) for the scripts the stored nodes carry:
\* [threw, value] where value is the returned value or the error's message
RunScript(code, input) ==
    CASE code = "return input;" -> [threw |-> FALSE, value |-> input]
      [] code = "return input.toUpperCase();" -> [threw |-> FALSE, value |-> toUpperCase(input)]
      [] code = "throw new Error('boom');" -> [threw |-> TRUE, value |-> "boom"]
      [] code = "return (;" -> [threw |-> TRUE, value |-> "Unexpected token ';'"]

IsPassthroughType(node) == node.type = "input" \/ node.type = "output"

IsScripted(node) ==
    node.type = "processor" \/ (node.type = "default" /\ node.custom_code # "")

\* line 202 without its test of the type: every node that is neither a
\* passthrough nor scripted is sent to the gateway
CallsGatewayAnyType(node) == ~IsPassthroughType(node) /\ ~IsScripted(node)

\* line 202 is reached: the node is sent to the gateway
CallsGateway(node) ==
    /\ ~IsPassthroughType(node)
    /\ ~IsScripted(node)
    /\ (node.type = "agent" \/ node.type = "default")

\* config.model || default (line 203); config is the parsed JSON column
NodeModel(node) == IF node.config.model # "" THEN node.config.model ELSE DefaultModel

\* executeNode whose catch returns the bare message of the script's error
ExecuteLocalBareMessage(node, input) ==
    IF IsPassthroughType(node) THEN [output |-> input, tokens |-> 0, cost |-> 0, model |-> ""]
    ELSE IF IsScripted(node)
    THEN LET r == RunScript(IF node.custom_code # "" THEN node.custom_code ELSE "return input;", input)
         IN  [output |-> r.value, tokens |-> 0, cost |-> 0, model |-> ""]
    ELSE [output |-> input, tokens |-> 0, cost |-> 0, model |-> ""]

\* executeNode for a node that does not reach the gateway (lines 185-199, 228)
ExecuteLocal(node, input) ==
    IF IsPassthroughType(node) THEN [output |-> input, tokens |-> 0, cost |-> 0, model |-> ""]
    ELSE IF IsScripted(node)
    THEN LET r == RunScript(IF node.custom_code # "" THEN node.custom_code ELSE "return input;", input)
         IN  IF r.threw
             THEN [output |-> "Error: " \o r.value, tokens |-> 0, cost |-> 0, model |-> ""]
             ELSE [output |-> r.value, tokens |-> 0, cost |-> 0, model |-> ""]
    ELSE [output |-> input, tokens |-> 0, cost |-> 0, model |-> ""]

\* executeNode once the gateway has answered (lines 219-224)
ExecuteAgent(node, data) ==
    LET response == OpenRouterResponse(NodeModel(node), data)
    IN  [output |-> response.content, tokens |-> response.usage.totalTokens,
         cost |-> response.usage.cost, model |-> response.model]

\* ------------------------------------------------------- executeFramework
VARIABLES
    framework,      \* the FrameworkGraph argument: node rows and edge rows
    testInput,      \* the testInput argument
    pc,             \* "start", "loop", "awaiting" (a gateway call is in flight), "done"
    executionOrder, \* const executionOrder
    edgesByTarget,  \* const edgesByTarget
    idx,            \* position of the for-of loop in executionOrder
    inflight,       \* the gateway calls that were issued and have not settled
    nodeOutputs,
    nodeTimings,
    logs,
    totalTokens,
    totalCost,
    result,         \* the value the returned promise resolves with
    calls           \* history: how each call of executeNode ended

\* The store behind the HTTP routes (c.env.DB) and the request being served
VARIABLES
    DB,             \* the rows of frameworks, nodes, edges, test_results, execution_logs
    uuids,          \* how many ids uuidv4() has handed out
    request,        \* the request being served, or the last one served
    before,         \* history: DB when that request arrived
    skeletonOnly    \* history: every request so far was a POST of the two-node skeleton

\* One call of raceModels
VARIABLES
    models,         \* the `models` argument
    promises,       \* const promises: one per model, in list order
    settled,        \* history: the promises' indexes in the order they settled
    raced           \* the promise raceModels returns

\* A GET /frameworks/:id served while other requests are
VARIABLES
    reader          \* the GET being served, or the last one served

\* The visual editor
VARIABLES
    editor,         \* the component's state: nodes, edges
    clock           \* what Date.now() returned last

\* The node-type catalogue
VARIABLES
    node_types,     \* the rows of the node_types table, newest first
    typeRequest     \* the last /node-types request and its answer

runVars == <<framework, testInput, pc, executionOrder, edgesByTarget, idx, inflight,
             nodeOutputs, nodeTimings, logs, totalTokens, totalCost, result, calls>>

storeVars == <<DB, uuids, request, before, skeletonOnly>>

raceVars == <<models, promises, settled, raced>>

readVars == <<reader>>

editorVars == <<editor, clock>>

typeVars == <<node_types, typeRequest>>

vars == <<runVars, storeVars, raceVars, readVars, editorVars, typeVars>>

Separator == "\n---\n"

NoResult == [status |-> "none"]

\* The node rows a stored framework is made of.  The id column is the
\* primary key of the nodes table, so a framework's node ids are distinct.
NodePool ==
    {[id |-> "input", type |-> "input", label |-> "Input",
      config |-> [model |-> ""], custom_code |-> ""],
     [id |-> "2", type |-> "agent", label |-> "Agent",
      config |-> [model |-> "anthropic/claude-3.5-sonnet"], custom_code |-> ""],
     [id |-> "1", type |-> "default", label |-> "Node",
      config |-> [model |-> ""], custom_code |-> ""],
     [id |-> "fmt", type |-> "default", label |-> "Output Formatter",
      config |-> [model |-> ""], custom_code |-> "return input.toUpperCase();"],
     [id |-> "bad", type |-> "processor", label |-> "Bad",
      config |-> [model |-> ""], custom_code |-> "throw new Error('boom');"],
     [id |-> "syn", type |-> "processor", label |-> "Typo",
      config |-> [model |-> ""], custom_code |-> "return (;"],
     [id |-> "output", type |-> "output", label |-> "Output",
      config |-> [model |-> ""], custom_code |-> ""]}

\* an id no node row carries
GhostId == "ghost"

NodeLists == {ns \in SeqsUpTo(NodePool, MaxNodes) : IsInjective(NodeIds(ns))}

EdgeRows(ns) ==
    [source_id : Range(NodeIds(ns)) \cup {GhostId},
     target_id : Range(NodeIds(ns)) \cup {GhostId}]

EdgeLists(ns) == SeqsUpTo(EdgeRows(ns), MaxEdges)

TestInputs == {"hello", ""}

\* framework.nodes.find(n => n.id === nodeId)
FindNode(nodes, nodeId) == nodes[IndexOf(NodeIds(nodes), nodeId)]

\* edgesByTarget filled with unshift instead of push: sources in reverse
\* declaration order
BuildEdgesByTargetUnshift(edges) ==
    [t \in {edges[k].target_id : k \in 1..Len(edges)} |->
        LET into == SelectSeq(edges, LAMBDA e : e.target_id = t)
        IN  [k \in 1..Len(into) |-> into[Len(into) + 1 - k].source_id]]

\* lines 249-255
BuildEdgesByTarget(edges) ==
    [t \in {edges[k].target_id : k \in 1..Len(edges)} |->
        LET into == SelectSeq(edges, LAMBDA e : e.target_id = t)
        IN  [k \in 1..Len(into) |-> into[k].source_id]]

\* lines 263-273
GatherInput(nodeId, byTarget, outputs, tin) ==
    LET sourceNodes == IF nodeId \in DOMAIN byTarget THEN byTarget[nodeId] ELSE <<>>
    IN  IF Len(sourceNodes) = 0 THEN tin
        ELSE IF Len(sourceNodes) = 1 THEN OrElse(outputs, sourceNodes[1], tin)
        ELSE join([k \in 1..Len(sourceNodes) |-> OrElse(outputs, sourceNodes[k], "")], Separator)

\* obj[k] = v on a JavaScript object
Put(obj, k, v) == [x \in DOMAIN obj \cup {k} |-> IF x = k THEN v ELSE obj[x]]

\* the terminal output read from the last executed node when the selected
\* output node has no recorded output
FinalOutputFallsBackToLast(nodes, order, outputs) ==
    LET outputNodes == SelectSeq(nodes, LAMBDA n :
                           n.type = "output" \/ includes(toLowerCase(n.label), "output"))
        last == IF Len(order) > 0 THEN OrElse(outputs, order[Len(order)], "") ELSE ""
    IN  IF Len(outputNodes) > 0 THEN OrElse(outputs, outputNodes[1].id, last)
        ELSE last

\* lines 310-315, then `finalOutput || ''` of line 320
FinalOutput(nodes, order, outputs) ==
    LET outputNodes == SelectSeq(nodes, LAMBDA n :
                           n.type = "output" \/ includes(toLowerCase(n.label), "output"))
    IN  IF Len(outputNodes) > 0 THEN OrElse(outputs, outputNodes[1].id, "")
        ELSE IF Len(order) > 0 THEN OrElse(outputs, order[Len(order)], "")
        ELSE ""

\* No request has been served: the tables are empty
EmptyDB ==
    [frameworks |-> {}, nodes |-> {}, edges |-> {}, test_results |-> {},
     execution_logs |-> {}]

NoRequest ==
    [route |-> "none", id |-> 0, body |-> [nodes |-> <<>>, edges |-> <<>>],
     nodes |-> <<>>, edges |-> <<>>, logs |-> 0, resultId |-> 0, pc |-> "done", status |-> 200]

StoreIdle ==
    /\ DB = EmptyDB
    /\ uuids = 0
    /\ request = NoRequest
    /\ before = EmptyDB
    /\ skeletonOnly = TRUE

\* no GET has been served
NoReader == [id |-> 0, pc |-> "done", status |-> 200, nodes |-> {}, edges |-> {}]

ReaderIdle == reader = NoReader

\* no editor is mounted
EditorIdle ==
    /\ editor = [nodes |-> <<>>, edges |-> <<>>]
    /\ clock = 0

NoTypeRequest == [route |-> "none", id |-> "", status |-> 200, body |-> <<>>]

\* the node_types table is empty
TypesIdle ==
    /\ node_types = <<>>
    /\ typeRequest = NoTypeRequest

OthersIdle == ReaderIdle /\ EditorIdle /\ TypesIdle

\* The value of a promise that has none: an empty OpenRouterResponse
NoResponse ==
    [content |-> "", model |-> "",
     usage |-> [promptTokens |-> 0, completionTokens |-> 0, totalTokens |-> 0, cost |-> 0]]

\* raceModels has not been called
NotRacing == [state |-> "idle", value |-> NoResponse, reason |-> ""]

RaceIdle ==
    /\ models = <<>>
    /\ promises = <<>>
    /\ settled = <<>>
    /\ raced = NotRacing

\* executeFramework is entered: lines 237-242
RunStarts ==
    /\ pc = "start"
    /\ executionOrder = <<>>
    /\ edgesByTarget = <<>>
    /\ idx = 1
    /\ inflight = <<>>
    /\ nodeOutputs = <<>>
    /\ nodeTimings = <<>>
    /\ logs = <<>>
    /\ totalTokens = 0
    /\ totalCost = 0
    /\ result = NoResult
    /\ calls = <<>>

Init ==
    /\ \E ns \in NodeLists : \E es \in EdgeLists(ns) :
          framework = [nodes |-> ns, edges |-> es]
    /\ testInput \in TestInputs
    /\ RunStarts
    /\ StoreIdle
    /\ OthersIdle
    /\ RaceIdle

\* lines 244-255 when nothing throws
Prepare ==
    /\ pc = "start"
    /\ ~BuildThrows(framework.nodes, framework.edges)
    /\ executionOrder' = buildExecutionOrder(framework.nodes, framework.edges)
    /\ edgesByTarget' = BuildEdgesByTarget(framework.edges)
    /\ pc' = "loop"
    /\ UNCHANGED <<framework, testInput, idx, inflight, nodeOutputs, nodeTimings,
                   logs, totalTokens, totalCost, result, calls>>
    /\ UNCHANGED <<storeVars, raceVars, readVars, editorVars, typeVars>>

\* the run-level catch dropping the exception's message
FailedResultNoMessage(message) ==
    [status |-> "failed", success |-> FALSE,
     output |-> "Execution failed",
     totalTokens |-> totalTokens, totalCost |-> totalCost,
     nodeTimings |-> nodeTimings, nodeOutputs |-> nodeOutputs, logs |-> logs]

\* lines 327-338: the run-level catch
FailedResult(message) ==
    [status |-> "failed", success |-> FALSE,
     output |-> "Execution failed: " \o message,
     totalTokens |-> totalTokens, totalCost |-> totalCost,
     nodeTimings |-> nodeTimings, nodeOutputs |-> nodeOutputs, logs |-> logs]

\* line 246 throws: an edge's source is no node
PrepareThrows ==
    /\ pc = "start"
    /\ BuildThrows(framework.nodes, framework.edges)
    /\ result' = FailedResult(PushOfUndefined)
    /\ pc' = "done"
    /\ UNCHANGED <<framework, testInput, executionOrder, edgesByTarget, idx, inflight,
                   nodeOutputs, nodeTimings, logs, totalTokens, totalCost, calls>>
    /\ UNCHANGED <<storeVars, raceVars, readVars, editorVars, typeVars>>

\* The node of the current iteration.  Every id of executionOrder is the id
\* of a node row, so the `continue` of line 260 is never taken.
CurrentNode == FindNode(framework.nodes, executionOrder[idx])

CurrentInput == GatherInput(executionOrder[idx], edgesByTarget, nodeOutputs, testInput)

\* the totals assigned instead of added to
RecordResultOverwritesTotals(nodeId, in, r, latency) ==
    /\ nodeTimings' = Put(nodeTimings, nodeId, latency)
    /\ nodeOutputs' = Put(nodeOutputs, nodeId, r.output)
    /\ totalTokens' = r.tokens
    /\ totalCost' = r.cost
    /\ logs' = Append(logs, [nodeId |-> nodeId, input |-> in, output |-> r.output,
                             model |-> r.model, tokens |-> r.tokens, latencyMs |-> latency])
    /\ calls' = Append(calls, [nodeId |-> nodeId, threw |-> FALSE,
                               tokens |-> r.tokens, cost |-> r.cost])

\* lines 279-293: executeNode returned `r` after `latency` ms
RecordResult(nodeId, in, r, latency) ==
    /\ nodeTimings' = Put(nodeTimings, nodeId, latency)
    /\ nodeOutputs' = Put(nodeOutputs, nodeId, r.output)
    /\ totalTokens' = totalTokens + r.tokens
    /\ totalCost' = totalCost + r.cost
    /\ logs' = Append(logs, [nodeId |-> nodeId, input |-> in, output |-> r.output,
                             model |-> r.model, tokens |-> r.tokens, latencyMs |-> latency])
    /\ calls' = Append(calls, [nodeId |-> nodeId, threw |-> FALSE,
                               tokens |-> r.tokens, cost |-> r.cost])

\* the per-node catch without its nodeTimings assignment
RecordErrorWithoutTiming(nodeId, in, message, latency) ==
    /\ nodeOutputs' = Put(nodeOutputs, nodeId, "Error: " \o message)
    /\ logs' = Append(logs, [nodeId |-> nodeId, input |-> in, output |-> "",
                             latencyMs |-> latency, error |-> message])
    /\ calls' = Append(calls, [nodeId |-> nodeId, threw |-> TRUE, tokens |-> 0, cost |-> 0])
    /\ UNCHANGED <<nodeTimings, totalTokens, totalCost>>

\* lines 294-306: executeNode threw an error with this message
RecordError(nodeId, in, message, latency) ==
    /\ nodeTimings' = Put(nodeTimings, nodeId, latency)
    /\ nodeOutputs' = Put(nodeOutputs, nodeId, "Error: " \o message)
    /\ logs' = Append(logs, [nodeId |-> nodeId, input |-> in, output |-> "",
                             latencyMs |-> latency, error |-> message])
    /\ calls' = Append(calls, [nodeId |-> nodeId, threw |-> TRUE, tokens |-> 0, cost |-> 0])
    /\ UNCHANGED <<totalTokens, totalCost>>

\* One iteration of the loop for a node that executeNode handles without the
\* gateway (passthrough and scripted nodes); it completes within one tick of
\* the clock.
RunLocalNode ==
    /\ pc = "loop"
    /\ idx <= Len(executionOrder)
    /\ ~CallsGateway(CurrentNode)
    /\ RecordResult(executionOrder[idx], CurrentInput,
                    ExecuteLocal(CurrentNode, CurrentInput), 0)
    /\ idx' = idx + 1
    /\ UNCHANGED <<framework, testInput, pc, executionOrder, edgesByTarget, inflight, result>>
    /\ UNCHANGED <<storeVars, raceVars, readVars, editorVars, typeVars>>

\* executeNode called without `await`: the loop goes on to the next node
\* while the gateway call is in flight
CallGatewayNoAwait ==
    /\ pc = "loop"
    /\ idx <= Len(executionOrder)
    /\ CallsGateway(CurrentNode)
    /\ inflight' = Append(inflight, [nodeId |-> executionOrder[idx],
                                     model |-> NodeModel(CurrentNode),
                                     input |-> CurrentInput])
    /\ idx' = idx + 1
    /\ UNCHANGED <<framework, testInput, pc, executionOrder, edgesByTarget, nodeOutputs,
                   nodeTimings, logs, totalTokens, totalCost, result, calls>>
    /\ UNCHANGED <<storeVars, raceVars, readVars, editorVars, typeVars>>

\* The iteration of an agent node up to `await fetch(...)` (lines 263-278, 203-217, 40-57)
CallGateway ==
    /\ pc = "loop"
    /\ idx <= Len(executionOrder)
    /\ CallsGateway(CurrentNode)
    /\ inflight' = Append(inflight, [nodeId |-> executionOrder[idx],
                                     model |-> NodeModel(CurrentNode),
                                     input |-> CurrentInput])
    /\ pc' = "awaiting"
    /\ UNCHANGED <<framework, testInput, executionOrder, edgesByTarget, idx, nodeOutputs,
                   nodeTimings, logs, totalTokens, totalCost, result, calls>>
    /\ UNCHANGED <<storeVars, raceVars, readVars, editorVars, typeVars>>

\* The gateway answers 2xx: the rest of the iteration
GatewayReplies ==
    /\ pc = "awaiting"
    /\ \E data \in GatewayAnswers(inflight[1].input) :
          RecordResult(inflight[1].nodeId, inflight[1].input,
                       ExecuteAgent(CurrentNode, data), data.latencyMs)
    /\ inflight' = <<>>
    /\ idx' = idx + 1
    /\ pc' = "loop"
    /\ UNCHANGED <<framework, testInput, executionOrder, edgesByTarget, result>>
    /\ UNCHANGED <<storeVars, raceVars, readVars, editorVars, typeVars>>

\* no per-node try/catch: the error of the gateway reaches the run-level catch
GatewayFailsAbortsRun ==
    /\ pc = "awaiting"
    /\ \E failure \in GatewayFailures : result' = FailedResult(failure.message)
    /\ inflight' = <<>>
    /\ pc' = "done"
    /\ UNCHANGED <<framework, testInput, executionOrder, edgesByTarget, idx, nodeOutputs,
                   nodeTimings, logs, totalTokens, totalCost, calls>>
    /\ UNCHANGED <<storeVars, raceVars, readVars, editorVars, typeVars>>

\* a timeout around the call: the error is recorded and the loop goes on
\* while the call is left in flight
GatewayTimesOut ==
    /\ pc = "awaiting"
    /\ RecordError(inflight[1].nodeId, inflight[1].input, "timeout", 40)
    /\ idx' = idx + 1
    /\ pc' = "loop"
    /\ UNCHANGED <<framework, testInput, executionOrder, edgesByTarget, inflight, result>>
    /\ UNCHANGED <<storeVars, raceVars, readVars, editorVars, typeVars>>

\* The gateway answers non-2xx or the fetch is rejected: callOpenRouter and
\* executeNode throw, the per-node catch records the error
GatewayFails ==
    /\ pc = "awaiting"
    /\ \E failure \in GatewayFailures :
          RecordError(inflight[1].nodeId, inflight[1].input, failure.message,
                      failure.latencyMs)
    /\ inflight' = <<>>
    /\ idx' = idx + 1
    /\ pc' = "loop"
    /\ UNCHANGED <<framework, testInput, executionOrder, edgesByTarget, result>>
    /\ UNCHANGED <<storeVars, raceVars, readVars, editorVars, typeVars>>

\* the run reported 'partial' and unsuccessful when a node's execution threw
FinishReportsPartial ==
    /\ pc = "loop"
    /\ idx > Len(executionOrder)
    /\ LET errored == \E k \in 1..Len(logs) : "error" \in DOMAIN logs[k]
       IN  result' = [status |-> IF errored THEN "partial" ELSE "completed",
                      success |-> ~errored,
                      output |-> FinalOutput(framework.nodes, executionOrder, nodeOutputs),
                      totalTokens |-> totalTokens, totalCost |-> totalCost,
                      nodeTimings |-> nodeTimings, nodeOutputs |-> nodeOutputs, logs |-> logs]
    /\ pc' = "done"
    /\ UNCHANGED <<framework, testInput, executionOrder, edgesByTarget, idx, inflight,
                   nodeOutputs, nodeTimings, logs, totalTokens, totalCost, calls>>
    /\ UNCHANGED <<storeVars, raceVars, readVars, editorVars, typeVars>>

\* lines 309-326: the loop is over
Finish ==
    /\ pc = "loop"
    /\ idx > Len(executionOrder)
    /\ result' = [status |-> "completed", success |-> TRUE,
                  output |-> FinalOutput(framework.nodes, executionOrder, nodeOutputs),
                  totalTokens |-> totalTokens, totalCost |-> totalCost,
                  nodeTimings |-> nodeTimings, nodeOutputs |-> nodeOutputs, logs |-> logs]
    /\ pc' = "done"
    /\ UNCHANGED <<framework, testInput, executionOrder, edgesByTarget, idx, inflight,
                   nodeOutputs, nodeTimings, logs, totalTokens, totalCost, calls>>
    /\ UNCHANGED <<storeVars, raceVars, readVars, editorVars, typeVars>>

Next ==
    \/ Prepare
    \/ PrepareThrows
    \/ RunLocalNode
    \/ CallGateway
    \/ GatewayReplies
    \/ GatewayFails
    \/ Finish

Spec == Init /\ [][Next]_vars

TypeOK == pc \in {"start", "loop", "awaiting", "done"}

\* ------------------------------------- runs of a framework of a single node
\* The ids of AVAILABLE_MODELS, the models the client offers for an agent
AvailableModels ==
    {"google/gemini-2.0-flash-exp:free",
     "meta-llama/llama-3.3-70b-instruct:free",
     "deepseek/deepseek-r1-distill-llama-70b:free",
     "microsoft/phi-4:free",
     "qwen/qwen-2.5-coder-32b-instruct:free",
     "nvidia/llama-3.1-nemotron-70b-instruct:free",
     "mistralai/mistral-small-24b-instruct-2501:free",
     "meta-llama/llama-3.2-11b-vision-instruct:free",
     "huggingfaceh4/zephyr-7b-beta:free",
     "liquid/lfm-40b:free",
     "sophosympatheia/rogue-rose-103b-v0.2:free",
     "meta-llama/llama-3.3-70b-instruct",
     "deepseek/deepseek-chat",
     "anthropic/claude-3.5-sonnet",
     "openai/gpt-4o"}

\* what config.model of a stored node can be: absent, a model the client
\* offers, a key of the price table, or any other string
ConfigModels == {"", "acme/unlisted-1"} \cup AvailableModels \cup PricedModels

\* the type column is free text: the types executeNode tests for and those
\* the client's palettes and demos use besides
NodeTypes ==
    {"input", "output", "processor", "agent", "default",
     "router", "tool", "memory", "parallel", "merge", "rag"}

NodeKinds ==
    [id : {"n"}, type : NodeTypes, label : {"Node"},
     config : [model : ConfigModels],
     custom_code : {"", "return input.toUpperCase();", "throw new Error('boom');"}]

\* a framework of one node, of any kind, and at most one edge
InitOneNode ==
    /\ \E n \in NodeKinds : \E es \in SeqsUpTo(EdgeRows(<<n>>), 1) :
          framework = [nodes |-> <<n>>, edges |-> es]
    /\ testInput \in TestInputs
    /\ RunStarts
    /\ StoreIdle
    /\ OthersIdle
    /\ RaceIdle

SpecOneNode == InitOneNode /\ [][Next]_vars

\* ------------------------------------------------- the framework routes
\* The handlers of POST /frameworks, PUT /frameworks/:id, DELETE
\* /frameworks/:id and POST /tests/:frameworkId/run, statement by statement:
\* every `await c.env.DB...run()` is one step.  Requests are served one
\* after the other.  A row keeps the columns the handlers and the schema's
\* constraints read; ids handed out by uuidv4() are 1, 2, ...
MaxUuids == 4

\* the body App.js sends to create a framework: the two-node skeleton
SkeletonBody ==
    [nodes |-> <<[id |-> "input", type |-> "input", label |-> "Input", customCode |-> ""],
                 [id |-> "output", type |-> "output", label |-> "Output", customCode |-> ""]>>,
     edges |-> <<>>]

\* a saved graph with an edge
ChainBody ==
    [nodes |-> <<[id |-> "input", type |-> "input", label |-> "Input", customCode |-> ""],
                 [id |-> "agent1", type |-> "agent", label |-> "Agent 1", customCode |-> ""]>>,
     edges |-> <<[id |-> "e1", source |-> "input", target |-> "agent1"]>>]

\* a node that names neither type nor label, and an edge of its own
BareBody ==
    [nodes |-> <<[id |-> "n1", type |-> "", label |-> "", customCode |-> ""]>>,
     edges |-> <<[id |-> "e2", source |-> "n1", target |-> "n1"]>>]

\* a body without nodes and edges: body.nodes || [], body.edges || []
EmptyBody == [nodes |-> <<>>, edges |-> <<>>]

Bodies == {SkeletonBody, ChainBody, BareBody, EmptyBody}

\* the values bound to INSERT INTO nodes
NodeRow(frameworkId, node) ==
    [id |-> node.id,
     framework_id |-> frameworkId,
     type |-> IF node.type # "" THEN node.type ELSE "default",
     label |-> IF node.label # "" THEN node.label ELSE "Node",
     custom_code |-> node.customCode]

\* the values bound to INSERT INTO edges
EdgeRow(frameworkId, edge) ==
    [id |-> edge.id, framework_id |-> frameworkId,
     source_id |-> edge.source, target_id |-> edge.target]

\* The INSERT is rejected, and the statement throws: id is the table's
\* PRIMARY KEY, framework_id REFERENCES frameworks(id)
NodeInsertFails(db, row) ==
    (\E r \in db.nodes : r.id = row.id) \/ row.framework_id \notin db.frameworks

EdgeInsertFails(db, row) ==
    (\E r \in db.edges : r.id = row.id) \/ row.framework_id \notin db.frameworks

\* the delete that leaves the test results and their logs behind
DeleteKeepsResults(db, id) ==
    [frameworks     |-> db.frameworks \ {id},
     nodes          |-> {r \in db.nodes : r.framework_id # id},
     edges          |-> {r \in db.edges : r.framework_id # id},
     test_results   |-> db.test_results,
     execution_logs |-> db.execution_logs]

\* DELETE FROM frameworks WHERE id = ? under the schema's ON DELETE CASCADE
CascadeDelete(db, id) ==
    LET gone == {r.id : r \in {t \in db.test_results : t.framework_id = id}}
    IN  [frameworks     |-> db.frameworks \ {id},
         nodes          |-> {r \in db.nodes : r.framework_id # id},
         edges          |-> {r \in db.edges : r.framework_id # id},
         test_results   |-> {r \in db.test_results : r.framework_id # id},
         execution_logs |-> {l \in db.execution_logs : l.result_id \notin gone}]

\* no handler is running
Idle == request.status # 0

Serving(route, at) == request.route = route /\ request.status = 0 /\ request.pc = at

NewRequest(route, id, body, at) ==
    [route |-> route, id |-> id, body |-> body, nodes |-> body.nodes, edges |-> body.edges,
     logs |-> 0, resultId |-> 0, pc |-> at, status |-> 0]

\* the handler ends: it returned the status, or a statement threw (500)
Ends(status) == request' = [request EXCEPT !.status = status, !.pc = "done"]

\* the loop that undoes the whole update when an INSERT is rejected
InsertNextNodeRollsBack ==
    LET row == NodeRow(request.id, Head(request.nodes))
    IN  IF NodeInsertFails(DB, row)
        THEN Ends(500) /\ DB' = before
        ELSE /\ DB' = [DB EXCEPT !.nodes = @ \cup {row}]
             /\ request' = [request EXCEPT !.nodes = Tail(@)]

\* one iteration of `for (const node of (body.nodes || []))`
InsertNextNode ==
    LET row == NodeRow(request.id, Head(request.nodes))
    IN  IF NodeInsertFails(DB, row)
        THEN Ends(500) /\ UNCHANGED DB
        ELSE /\ DB' = [DB EXCEPT !.nodes = @ \cup {row}]
             /\ request' = [request EXCEPT !.nodes = Tail(@)]

\* one iteration of `for (const edge of (body.edges || []))`
InsertNextEdge ==
    LET row == EdgeRow(request.id, Head(request.edges))
    IN  IF EdgeInsertFails(DB, row)
        THEN Ends(500) /\ UNCHANGED DB
        ELSE /\ DB' = [DB EXCEPT !.edges = @ \cup {row}]
             /\ request' = [request EXCEPT !.edges = Tail(@)]

\* POST /frameworks, lines 105-112: a fresh id and the framework row
PostFramework ==
    /\ Idle
    /\ uuids < MaxUuids
    /\ \E body \in Bodies :
          /\ request' = NewRequest("POST", uuids + 1, body, "insert")
          /\ skeletonOnly' = (skeletonOnly /\ body = SkeletonBody)
    /\ uuids' = uuids + 1
    /\ DB' = [DB EXCEPT !.frameworks = @ \cup {uuids + 1}]
    /\ before' = DB
    /\ UNCHANGED <<runVars, raceVars, readVars, editorVars, typeVars>>

PostInsertNode ==
    /\ Serving("POST", "insert")
    /\ request.nodes # <<>>
    /\ InsertNextNode
    /\ UNCHANGED <<uuids, before, skeletonOnly, runVars, raceVars, readVars, editorVars, typeVars>>

PostInsertEdge ==
    /\ Serving("POST", "insert")
    /\ request.nodes = <<>>
    /\ request.edges # <<>>
    /\ InsertNextEdge
    /\ UNCHANGED <<uuids, before, skeletonOnly, runVars, raceVars, readVars, editorVars, typeVars>>

PostReturn ==
    /\ Serving("POST", "insert")
    /\ request.nodes = <<>>
    /\ request.edges = <<>>
    /\ Ends(201)
    /\ UNCHANGED <<DB, uuids, before, skeletonOnly, runVars, raceVars, readVars, editorVars, typeVars>>

\* PUT /frameworks/:id, lines 150-157: the UPDATE touches name, description
\* and updated_at of the framework row, if there is one
PutFramework ==
    /\ Idle
    /\ \E id \in 1..MaxUuids : \E body \in Bodies :
          request' = NewRequest("PUT", id, body, "deleteNodes")
    /\ before' = DB
    /\ skeletonOnly' = FALSE
    /\ UNCHANGED <<DB, uuids, runVars, raceVars, readVars, editorVars, typeVars>>

\* PutDeleteNodes without its DELETE
PutKeepsNodes ==
    /\ Serving("PUT", "deleteNodes")
    /\ request' = [request EXCEPT !.pc = "deleteEdges"]
    /\ UNCHANGED <<DB, uuids, before, skeletonOnly, runVars, raceVars, readVars, editorVars, typeVars>>

\* line 160
PutDeleteNodes ==
    /\ Serving("PUT", "deleteNodes")
    /\ DB' = [DB EXCEPT !.nodes = {r \in @ : r.framework_id # request.id}]
    /\ request' = [request EXCEPT !.pc = "deleteEdges"]
    /\ UNCHANGED <<uuids, before, skeletonOnly, runVars, raceVars, readVars, editorVars, typeVars>>

\* an update that also clears the framework's test results
PutDeleteEdgesAndResults ==
    /\ Serving("PUT", "deleteEdges")
    /\ DB' = [DB EXCEPT !.edges = {r \in @ : r.framework_id # request.id},
                        !.test_results = {r \in @ : r.framework_id # request.id}]
    /\ request' = [request EXCEPT !.pc = "insert"]
    /\ UNCHANGED <<uuids, before, skeletonOnly, runVars, raceVars, readVars, editorVars, typeVars>>

\* line 161
PutDeleteEdges ==
    /\ Serving("PUT", "deleteEdges")
    /\ DB' = [DB EXCEPT !.edges = {r \in @ : r.framework_id # request.id}]
    /\ request' = [request EXCEPT !.pc = "insert"]
    /\ UNCHANGED <<uuids, before, skeletonOnly, runVars, raceVars, readVars, editorVars, typeVars>>

PutInsertNode ==
    /\ Serving("PUT", "insert")
    /\ request.nodes # <<>>
    /\ InsertNextNode
    /\ UNCHANGED <<uuids, before, skeletonOnly, runVars, raceVars, readVars, editorVars, typeVars>>

PutInsertEdge ==
    /\ Serving("PUT", "insert")
    /\ request.nodes = <<>>
    /\ request.edges # <<>>
    /\ InsertNextEdge
    /\ UNCHANGED <<uuids, before, skeletonOnly, runVars, raceVars, readVars, editorVars, typeVars>>

PutReturn ==
    /\ Serving("PUT", "insert")
    /\ request.nodes = <<>>
    /\ request.edges = <<>>
    /\ Ends(200)
    /\ UNCHANGED <<DB, uuids, before, skeletonOnly, runVars, raceVars, readVars, editorVars, typeVars>>

\* DELETE /frameworks/:id: one statement, then 204
DeleteFramework ==
    /\ Idle
    /\ \E id \in 1..MaxUuids :
          /\ DB' = CascadeDelete(DB, id)
          /\ request' = [NewRequest("DELETE", id, EmptyBody, "done") EXCEPT !.status = 204]
    /\ before' = DB
    /\ skeletonOnly' = FALSE
    /\ UNCHANGED <<uuids, runVars, raceVars, readVars, editorVars, typeVars>>

\* POST /tests/:frameworkId/run, lines 9-42: 404 without a framework row;
\* otherwise the run, which logs at most one entry per stored node
RunTest ==
    /\ Idle
    /\ \E id \in 1..MaxUuids :
          IF id \notin DB.frameworks
          THEN request' = [NewRequest("RUN", id, EmptyBody, "done") EXCEPT !.status = 404]
          ELSE \E n \in 0..Cardinality({r \in DB.nodes : r.framework_id = id}) :
                  /\ uuids + 1 + n <= MaxUuids
                  /\ request' = [NewRequest("RUN", id, EmptyBody, "result") EXCEPT !.logs = n]
    /\ before' = DB
    /\ skeletonOnly' = FALSE
    /\ UNCHANGED <<DB, uuids, runVars, raceVars, readVars, editorVars, typeVars>>

\* lines 44-63: INSERT INTO test_results under a fresh id
RunInsertResult ==
    /\ Serving("RUN", "result")
    /\ IF request.id \notin DB.frameworks
       THEN Ends(500) /\ UNCHANGED <<DB, uuids>>
       ELSE /\ DB' = [DB EXCEPT !.test_results =
                          @ \cup {[id |-> uuids + 1, framework_id |-> request.id]}]
            /\ uuids' = uuids + 1
            /\ request' = [request EXCEPT !.resultId = uuids + 1, !.pc = "logs"]
    /\ UNCHANGED <<before, skeletonOnly, runVars, raceVars, readVars, editorVars, typeVars>>

\* lines 65-82: one INSERT INTO execution_logs per entry of result.logs
RunInsertLog ==
    /\ Serving("RUN", "logs")
    /\ request.logs > 0
    /\ IF \A r \in DB.test_results : r.id # request.resultId
       THEN Ends(500) /\ UNCHANGED <<DB, uuids>>
       ELSE /\ DB' = [DB EXCEPT !.execution_logs =
                          @ \cup {[id |-> uuids + 1, result_id |-> request.resultId]}]
            /\ uuids' = uuids + 1
            /\ request' = [request EXCEPT !.logs = @ - 1]
    /\ UNCHANGED <<before, skeletonOnly, runVars, raceVars, readVars, editorVars, typeVars>>

\* lines 84-97
RunReturn ==
    /\ Serving("RUN", "logs")
    /\ request.logs = 0
    /\ Ends(200)
    /\ UNCHANGED <<DB, uuids, before, skeletonOnly, runVars, raceVars, readVars, editorVars, typeVars>>

\* no run of executeFramework in progress
RunIdle ==
    /\ framework = [nodes |-> <<>>, edges |-> <<>>]
    /\ testInput = ""
    /\ RunStarts

InitStore == StoreIdle /\ RunIdle /\ RaceIdle /\ OthersIdle

NextStore ==
    \/ PostFramework
    \/ PostInsertNode
    \/ PostInsertEdge
    \/ PostReturn
    \/ PutFramework
    \/ PutDeleteNodes
    \/ PutDeleteEdges
    \/ PutInsertNode
    \/ PutInsertEdge
    \/ PutReturn
    \/ DeleteFramework
    \/ RunTest
    \/ RunInsertResult
    \/ RunInsertLog
    \/ RunReturn

SpecStore == InitStore /\ [][NextStore]_vars

\* ================================================================ claims
\* What the claims speak about, stated on the graph itself.
Nodes == framework.nodes

Edges == framework.edges

Ids == Range(NodeIds(Nodes))

EdgesReferToNodes ==
    \A k \in 1..Len(Edges) : Edges[k].source_id \in Ids /\ Edges[k].target_id \in Ids

\* t is reached from s along at least one edge, in at most `steps` steps
RECURSIVE Reaches(_, _, _)
Reaches(s, t, steps) ==
    /\ steps > 0
    /\ \E k \in 1..Len(Edges) :
          /\ Edges[k].source_id = s
          /\ (Edges[k].target_id = t \/ Reaches(Edges[k].target_id, t, steps - 1))

Acyclic == \A n \in Ids : ~Reaches(n, n, Len(Edges))

\* the run got past buildExecutionOrder
OrderBuilt == pc \in {"loop", "awaiting"} \/ (pc = "done" /\ result.status = "completed")

\* the sources of the edges into a node, in edge declaration order
SourcesInto(nodeId) ==
    LET ks == SelectSeq([k \in 1..Len(Edges) |-> k], LAMBDA k : Edges[k].target_id = nodeId)
    IN  [j \in 1..Len(ks) |-> Edges[ks[j]].source_id]

\* the log entry of a node
LogOf(nodeId) == logs[CHOOSE k \in 1..Len(logs) : logs[k].nodeId = nodeId]

Logged == {logs[k].nodeId : k \in 1..Len(logs)}

NodeOf(nodeId) == CHOOSE n \in Range(Nodes) : n.id = nodeId

\* C1: for a graph with distinct node ids whose edges all refer to nodes and
\* form no cycle, the execution order holds every one of the N node ids
\* exactly once and every edge's source before its target.
C1_TopologicalOrder ==
    (OrderBuilt /\ IsInjective(NodeIds(Nodes)) /\ EdgesReferToNodes /\ Acyclic)
    => /\ Len(executionOrder) = Len(Nodes)
       /\ \A id \in Ids : Cardinality({k \in 1..Len(executionOrder) : executionOrder[k] = id}) = 1
       /\ \A k \in 1..Len(Edges) :
             IndexOf(executionOrder, Edges[k].source_id) < IndexOf(executionOrder, Edges[k].target_id)

\* a three-node DAG with a fan-in whose order differs from the node array order
C1_Witness ==
    /\ OrderBuilt /\ EdgesReferToNodes /\ Acyclic
    /\ Len(Nodes) = 3 /\ Len(Edges) = 2
    /\ Edges[1].target_id = Edges[2].target_id
    /\ Edges[1].source_id # Edges[2].source_id
    /\ executionOrder # NodeIds(Nodes)
    /\ Len(executionOrder) = Len(Nodes)

\* the inputs handed to executeNode so far: one per log entry, and the one of
\* the call in flight
Handed ==
    {[nodeId |-> logs[k].nodeId, input |-> logs[k].input] : k \in 1..Len(logs)}
      \cup {[nodeId |-> inflight[k].nodeId, input |-> inflight[k].input] : k \in 1..Len(inflight)}

\* C2: a node with two or more incoming edges receives the recorded outputs
\* of its sources joined by "\n---\n" in edge declaration order, whatever
\* its type.
C2_FanInJoin ==
    \A h \in Handed :
        LET src == SourcesInto(h.nodeId)
        IN  Len(src) >= 2 =>
              /\ \A j \in 1..Len(src) : src[j] \in DOMAIN nodeOutputs
              /\ h.input = join([j \in 1..Len(src) |-> nodeOutputs[src[j]]], "\n---\n")

\* two sources answering "B" and "HELLO", declared in the order opposite to
\* the one they ran in, feed a third node
C2_Witness ==
    \E h \in Handed :
        /\ SourcesInto(h.nodeId) = <<"2", "1">>
        /\ executionOrder = <<"1", "2", h.nodeId>>
        /\ nodeOutputs["2"] = "B" /\ nodeOutputs["1"] = "HELLO"
        /\ h.input = "B\n---\nHELLO"

\* C3: a node with no incoming edge receives testInput; a node with exactly
\* one incoming edge receives exactly the output recorded for that edge's
\* source, whatever it is, never testInput in its place.
C3_SingleSourceInput ==
    \A h \in Handed :
        LET src == SourcesInto(h.nodeId)
        IN  /\ Len(src) = 0 => h.input = testInput
            /\ Len(src) = 1 => (src[1] \in DOMAIN nodeOutputs /\ h.input = nodeOutputs[src[1]])

\* a linear chain: the edges refer to nodes, form no cycle, are one fewer
\* than the nodes, and no node has two incoming or two outgoing edges
IsLinearChain ==
    /\ EdgesReferToNodes /\ Acyclic
    /\ Len(Nodes) >= 1 /\ Len(Edges) = Len(Nodes) - 1
    /\ \A n \in Ids : Len(SourcesInto(n)) <= 1
    /\ \A n \in Ids : Cardinality({k \in 1..Len(Edges) : Edges[k].source_id = n}) <= 1

\* the chain input -> agent -> output of the claim, run on "hello" with an
\* agent whose answer was its input in upper case
IsHelloChain(a, b, c) ==
    /\ Len(Nodes) = 3 /\ Len(Edges) = 2
    /\ {a, b, c} = Ids
    /\ NodeOf(a).type = "input" /\ NodeOf(b).type = "agent" /\ NodeOf(c).type = "output"
    /\ Range(Edges) = {[source_id |-> a, target_id |-> b], [source_id |-> b, target_id |-> c]}
    /\ testInput = "hello"
    /\ b \in Logged /\ "error" \notin DOMAIN LogOf(b)
    /\ LogOf(b).output = toUpperCase(LogOf(b).input)

\* The instance of C4 the spec gives: on input -> agent -> output with the
\* upper-casing agent and testInput "hello", the output node's recorded output
\* and the run's output are both "HELLO".
C4_HelloInstance ==
    \A a, b, c \in Ids :
        (pc = "done" /\ IsHelloChain(a, b, c))
        => /\ result.status = "completed"
           /\ result.nodeOutputs[c] = "HELLO"
           /\ result.output = "HELLO"

C4_HelloInstanceWitness ==
    \E a, b, c \in Ids : pc = "done" /\ IsHelloChain(a, b, c) /\ result.output = "HELLO"

\* C4: the instance above and, on every linear chain, each node's input is
\* the previous node's output (the first node's is testInput) and the run's
\* output is the output of the last node when that node has type output.
C4_ChainPropagation ==
    /\ C4_HelloInstance
    /\ (pc = "done" /\ IsLinearChain)
       => /\ result.status = "completed"
          /\ Len(executionOrder) = Len(Nodes)
          /\ LogOf(executionOrder[1]).input = testInput
          /\ \A k \in 2..Len(executionOrder) :
                LogOf(executionOrder[k]).input = nodeOutputs[executionOrder[k - 1]]
          /\ NodeOf(executionOrder[Len(executionOrder)]).type = "output"
                => result.output = nodeOutputs[executionOrder[Len(executionOrder)]]

\* the scripts that throw: one when it runs, one when it is compiled
ThrowingScripts == {"throw new Error('boom');", "return (;"}

HasThrowingScript(nodeId) ==
    NodeOf(nodeId).type = "processor" /\ NodeOf(nodeId).custom_code \in ThrowingScripts

EdgeSourcesAreNodes == \A k \in 1..Len(Edges) : Edges[k].source_id \in Ids

RECURSIVE SumReturned(_, _)
SumReturned(cs, field) ==
    IF cs = <<>> THEN 0
    ELSE (IF Head(cs).threw THEN 0 ELSE Head(cs)[field]) + SumReturned(Tail(cs), field)

\* C6: totalTokens and totalCost are the sums of the tokens and cost that
\* executeNode returned, over the nodes whose execution returned normally; a
\* node whose execution threw adds nothing.  The result carries these totals.
C6_TotalsAreSums ==
    /\ totalTokens = SumReturned(calls, "tokens")
    /\ totalCost = SumReturned(calls, "cost")
    /\ pc = "done" => (result.totalTokens = SumReturned(calls, "tokens")
                       /\ result.totalCost = SumReturned(calls, "cost"))

\* a gateway node returned with tokens and cost, a passthrough node returned,
\* and the execution of another gateway node threw
C6_Witness ==
    /\ pc = "done" /\ Len(calls) = 3
    /\ Cardinality({k \in 1..3 : calls[k].threw}) = 1
    /\ \E k \in 1..3 : ~calls[k].threw /\ calls[k].tokens = 15 /\ calls[k].cost = 18
    /\ result.totalTokens = 15
    /\ result.totalCost = 18

\* C7: a run whose loop was reached ends with status 'completed' and success
\* true however many nodes errored; success is true exactly when the status is
\* 'completed'; the status 'partial' is never produced.
C7_CompletedDespiteErrors ==
    pc = "done" =>
        /\ result.status \in {"completed", "failed"}
        /\ result.success <=> result.status = "completed"
        /\ EdgeSourcesAreNodes => (result.status = "completed" /\ result.success)

\* every node of a three-node run errored, and the run is completed
C7_Witness ==
    /\ pc = "done" /\ Len(logs) = 3
    /\ \A k \in 1..3 : startsWith(nodeOutputs[logs[k].nodeId], "Error: ")
    /\ \E k \in 1..3 : "error" \in DOMAIN logs[k]
    /\ result.status = "completed" /\ result.success

\* C8: an exception raised outside the per-node try/catch (an edge whose
\* source is no node makes buildExecutionOrder throw) does not escape: the
\* run returns status 'failed', success false, an output carrying the
\* exception's message, and the totals, timings, outputs and logs so far.
C8_RunLevelCatch ==
    /\ pc = "done" => result.status # "none"
    /\ (pc = "done" /\ ~EdgeSourcesAreNodes)
          => /\ result.status = "failed" /\ result.success = FALSE
             /\ result.output = "Execution failed: " \o PushOfUndefined
             /\ result.totalTokens = totalTokens /\ result.totalCost = totalCost
             /\ result.nodeTimings = nodeTimings /\ result.nodeOutputs = nodeOutputs
             /\ result.logs = logs

C8_Witness ==
    /\ pc = "done" /\ ~EdgeSourcesAreNodes /\ Len(Nodes) = 3
    /\ result.status = "failed"
    /\ includes(result.output, "Cannot read properties of undefined")

\* C9: when executeNode throws for a node, "Error: " + message becomes the
\* node's output, the node is logged with empty output and the message as
\* error, every remaining node of the order is executed, and the run is not
\* 'failed'.
C9_NodeFailureIsLocal ==
    /\ \A k \in 1..Len(calls) :
          calls[k].threw =>
            /\ logs[k].nodeId = calls[k].nodeId
            /\ logs[k].output = ""
            /\ "error" \in DOMAIN logs[k]
            /\ logs[k].error \in {"OpenRouter error: rate limited", "fetch failed"}
            /\ nodeOutputs[calls[k].nodeId] = "Error: " \o logs[k].error
    /\ (pc = "done" /\ EdgeSourcesAreNodes)
          => (result.status = "completed" /\ Range(executionOrder) \subseteq Logged)
    /\ (\E k \in 1..Len(calls) : calls[k].threw) => result.status # "failed"

\* the gateway refused the first node's call and two more nodes ran after it
C9_Witness ==
    /\ pc = "done" /\ Len(calls) = 3
    /\ calls[1].threw
    /\ nodeOutputs[calls[1].nodeId] = "Error: OpenRouter error: rate limited"
    /\ result.status = "completed"

\* the recorded output of a node, '' when it has none (finalOutput || '')
RecordedOutput(nodeId) == IF nodeId \in DOMAIN nodeOutputs THEN nodeOutputs[nodeId] ELSE ""

\* C10: a completed run returns the recorded output of the first node of type
\* 'output'; of the first node whose label contains "output" only when no
\* node has type 'output'; and of the last node of the execution order when
\* there is neither.
C10_TerminalOutput ==
    (pc = "done" /\ result.status = "completed") =>
        LET typed == SelectSeq(Nodes, LAMBDA n : n.type = "output")
            labelled == SelectSeq(Nodes, LAMBDA n : includes(toLowerCase(n.label), "output"))
        IN  result.output =
              IF Len(typed) > 0 THEN RecordedOutput(typed[1].id)
              ELSE IF Len(labelled) > 0 THEN RecordedOutput(labelled[1].id)
              ELSE IF Len(executionOrder) > 0
                   THEN RecordedOutput(executionOrder[Len(executionOrder)])
                   ELSE ""

\* --------------------------------------------------------------- C11
endsWith(s, suffix) ==
    Len(s) >= Len(suffix) /\ SubSeq(s, Len(s) - Len(suffix) + 1, Len(s)) = suffix

\* the calls of callOpenRouter that returned: the log entry carries the model
GatewayReturns == {k \in 1..Len(logs) : "model" \in DOMAIN logs[k] /\ logs[k].model # ""}

\* C11: the cost callOpenRouter computes is 0 for every model id ending in
\* ':free' (those of AVAILABLE_MODELS included) whatever the token counts;
\* for a model of the price table it is promptTokens * inputRate / 1e6 +
\* completionTokens * outputRate / 1e6 (0, every rate of the table being 0);
\* for any other model it is computed at the default rate of 1 and 2 dollars
\* per million tokens.
C11_CostByModel ==
    \A k \in GatewayReturns :
        \E data \in GatewayAnswers(logs[k].input) :
            /\ logs[k].tokens = data.total_tokens
            /\ endsWith(logs[k].model, ":free") => calls[k].cost = 0
            /\ logs[k].model \in PricedModels => calls[k].cost = 0
            /\ (logs[k].model \notin PricedModels /\ ~endsWith(logs[k].model, ":free")) =>
                  calls[k].cost = data.prompt_tokens * 1 + data.completion_tokens * 2

\* the part of C11 the code keeps: the price table and the default rate
C11_TableAndDefaultRate ==
    \A k \in GatewayReturns :
        \E data \in GatewayAnswers(logs[k].input) :
            /\ logs[k].tokens = data.total_tokens
            /\ calls[k].cost =
                  IF logs[k].model \in PricedModels THEN 0
                  ELSE data.prompt_tokens * 1 + data.completion_tokens * 2

\* --------------------------------------------------------------- C18
ModelledTypes == {"input", "output", "processor", "agent", "default"}

\* C18: executeNode returns its input unchanged, with tokens 0 and cost 0 and
\* without a gateway call, for every node of type 'input' or 'output' (with
\* or without custom code) and for every node whose type is none of input,
\* output, processor, agent, default; a gateway call is issued for a node of
\* type 'agent' and for a node of type 'default' that carries no custom
\* code, and for no other node.
C18_Dispatch ==
    /\ \A k \in 1..Len(inflight) :
          LET n == NodeOf(inflight[k].nodeId)
          IN  n.type = "agent" \/ (n.type = "default" /\ n.custom_code = "")
    /\ \A k \in 1..Len(calls) :
          LET n == NodeOf(calls[k].nodeId)
          IN  IF n.type \in {"input", "output"} \/ n.type \notin ModelledTypes
              THEN /\ ~calls[k].threw
                   /\ logs[k].output = logs[k].input
                   /\ nodeOutputs[n.id] = logs[k].input
                   /\ calls[k].tokens = 0 /\ calls[k].cost = 0
                   /\ logs[k].model = ""
                   /\ nodeTimings[n.id] = 0
              ELSE IF n.type = "agent" \/ (n.type = "default" /\ n.custom_code = "")
              THEN calls[k].threw \/ logs[k].model = NodeModel(n)
              ELSE ~calls[k].threw /\ logs[k].model = ""

\* an 'output' node and a 'router' node, each carrying a script, handed
\* "hello" and returning it unchanged
C18_Witness ==
    /\ Len(calls) = 1
    /\ Nodes[1].type = "output"
    /\ Nodes[1].custom_code = "return input.toUpperCase();"
    /\ logs[1].input = "hello"
    /\ nodeOutputs["n"] = "hello"
    /\ pc = "done"

C18_WitnessUnknownType ==
    /\ Len(calls) = 1
    /\ Nodes[1].type = "router"
    /\ Nodes[1].custom_code = "throw new Error('boom');"
    /\ logs[1].input = "hello"
    /\ nodeOutputs["n"] = "hello"
    /\ result.status = "completed"

\* --------------------------------------------------------------- C16
OnCycle(nodeId) == Reaches(nodeId, nodeId, Len(Edges))

HasCycle == \E n \in Ids : OnCycle(n)

\* C16: for a graph (every edge starts at a node) that contains a cycle,
\* buildExecutionOrder raises no error and no node on a cycle is in the
\* order it returns; executeFramework never executes such a node (no entry
\* in nodeOutputs, nodeTimings or logs, no call in flight) and the run ends
\* with status 'completed'.
C16_CycleNodesLeftOut ==
    (EdgeSourcesAreNodes /\ HasCycle) =>
        /\ pc # "start" => OrderBuilt
        /\ \A n \in Ids :
              OnCycle(n) =>
                  /\ n \notin Range(executionOrder)
                  /\ n \notin DOMAIN nodeOutputs
                  /\ n \notin DOMAIN nodeTimings
                  /\ n \notin Logged
                  /\ \A k \in 1..Len(inflight) : inflight[k].nodeId # n
        /\ pc = "done" =>
              /\ result.status = "completed" /\ result.success
              /\ \A n \in Ids : OnCycle(n) => n \notin DOMAIN result.nodeOutputs

\* the agent and the processor feed each other, the input node stands alone
\* and is the only node that ran
C16_Witness ==
    /\ NodeIds(Nodes) = <<"input", "2", "bad">>
    /\ Edges = <<[source_id |-> "2", target_id |-> "bad"],
                 [source_id |-> "bad", target_id |-> "2"]>>
    /\ testInput = "hello"
    /\ pc = "done"
    /\ result.status = "completed"
    /\ executionOrder = <<"input">>
    /\ DOMAIN result.nodeOutputs = {"input"}
    /\ Len(result.logs) = 1

\* a self-loop is a cycle of one node
C16_WitnessSelfLoop ==
    /\ NodeIds(Nodes) = <<"1">>
    /\ Edges = <<[source_id |-> "1", target_id |-> "1"]>>
    /\ pc = "done"
    /\ result.status = "completed"
    /\ executionOrder = <<>>
    /\ result.logs = <<>>

\* --------------------------------------------------------------- C17
\* the ids of the nodes no edge points to, in node-array order
ZeroInDegreeIds ==
    SelectSeq(NodeIds(Nodes), LAMBDA id : \A k \in 1..Len(Edges) : Edges[k].target_id # id)

\* the subsequence of the execution order made of those nodes
OrderedZeroInDegree == SelectSeq(executionOrder, LAMBDA id : id \in Range(ZeroInDegreeIds))

\* C17: the nodes of in-degree zero stand in the execution order in the
\* order in which the node array lists them, so the order of a graph with
\* no edges is the node array's order of ids.
C17_ZeroInDegreeInArrayOrder ==
    OrderBuilt =>
        /\ OrderedZeroInDegree = ZeroInDegreeIds
        /\ Edges = <<>> => executionOrder = NodeIds(Nodes)

\* the same for node arrays none of whose ids is a canonical array index
C17_NonIndexIds ==
    (OrderBuilt /\ \A id \in Ids : ArrayIndex(id) < 0) =>
        /\ OrderedZeroInDegree = ZeroInDegreeIds
        /\ Edges = <<>> => executionOrder = NodeIds(Nodes)

\* --------------------------------------------------------------- C19
\* the nodes whose execution has started: those that ended, then the one
\* whose gateway call is in flight
Started == [k \in 1..Len(calls) |-> calls[k].nodeId] \o [k \in 1..Len(inflight) |-> inflight[k].nodeId]

\* C19: at most one node is executing at any time.  Executions start in
\* execution order, each after every earlier node of the order has returned
\* or thrown, whether or not an edge joins them; so when a node starts, each
\* source of an edge into it has a recorded output.
C19_OneNodeAtATime ==
    /\ Len(inflight) <= 1
    /\ Len(Started) <= Len(executionOrder)
    /\ \A k \in 1..Len(Started) :
          /\ Started[k] = executionOrder[k]
          /\ \A s \in Range(SourcesInto(Started[k])) :
                /\ \E j \in 1..(k - 1) : calls[j].nodeId = s
                /\ s \in DOMAIN nodeOutputs
    /\ pc = "awaiting" <=> Len(inflight) = 1
    /\ pc = "awaiting" => idx = Len(calls) + 1
    /\ pc = "loop" => idx = Len(calls) + 1

\* two nodes that no edge joins: the second has not started while the
\* gateway call of the first is in flight
C19_Witness ==
    /\ Edges = <<>>
    /\ executionOrder = <<"2", "input">>
    /\ pc = "awaiting"
    /\ inflight[1].nodeId = "2"
    /\ calls = <<>>
    /\ "input" \notin DOMAIN nodeOutputs

\* --------------------------------------------------------------- C20
\* The run under the scheduling the platform gives it: a continuation that
\* is ready to run is run (the steps of the loop), and, as the claim's
\* second half supposes, every gateway call that is in flight settles.
MaxSettlingNodes == 2

MaxSettlingEdges == 1

InitSettling ==
    /\ \E ns \in {l \in NodeLists : Len(l) <= MaxSettlingNodes} :
          \E es \in SeqsUpTo(EdgeRows(ns), MaxSettlingEdges) :
             framework = [nodes |-> ns, edges |-> es]
    /\ testInput \in TestInputs
    /\ RunStarts
    /\ StoreIdle
    /\ OthersIdle
    /\ RaceIdle

SpecSettling ==
    /\ InitSettling
    /\ [][Next]_vars
    /\ WF_vars(Prepare \/ PrepareThrows \/ RunLocalNode \/ CallGateway \/ Finish)
    /\ WF_vars(GatewayReplies \/ GatewayFails)

\* a node whose execution has ended
Ended == {calls[k].nodeId : k \in 1..Len(calls)}

\* one gateway call per agent node: a call is issued only when none is in
\* flight and for a node that has not run yet, and when it settles the
\* node's execution ends (no second attempt)
OneCallPerNode ==
    inflight' # inflight =>
        \/ /\ inflight = <<>>
           /\ Len(inflight') = 1
           /\ inflight'[1].nodeId \notin Ended
           /\ calls' = calls
        \/ /\ Len(inflight) = 1
           /\ inflight' = <<>>
           /\ calls' = Append(calls, calls'[Len(calls')])
           /\ calls'[Len(calls')].nodeId = inflight[1].nodeId

\* while the call stays in flight nothing moves: no result, no later node,
\* no timeout
StalledWhileInFlight ==
    (inflight # <<>> /\ inflight' = inflight) =>
        /\ result = NoResult
        /\ UNCHANGED <<result, idx, calls, logs, nodeOutputs, nodeTimings, pc>>

Returned == pc = "done" /\ result.status \in {"completed", "failed"}

RowsOfOthers(table, id) == {r \in table : r.framework_id # id}

OthersUnchanged(id) ==
    /\ DB.frameworks \ {id} = before.frameworks \ {id}
    /\ RowsOfOthers(DB.nodes, id) = RowsOfOthers(before.nodes, id)
    /\ RowsOfOthers(DB.edges, id) = RowsOfOthers(before.edges, id)
    /\ RowsOfOthers(DB.test_results, id) = RowsOfOthers(before.test_results, id)
    /\ {l \in DB.execution_logs :
           \E r \in RowsOfOthers(before.test_results, id) : r.id = l.result_id}
         = {l \in before.execution_logs :
           \E r \in RowsOfOthers(before.test_results, id) : r.id = l.result_id}

\* C12: once DELETE /frameworks/:id has completed, no node, edge or test
\* result row carries that framework_id, no execution log of a removed test
\* result is left, and the rows of every other framework are as they were.
C12_DeleteCascades ==
    (request.route = "DELETE" /\ request.status = 204) =>
        /\ request.id \notin DB.frameworks
        /\ \A r \in DB.nodes \cup DB.edges \cup DB.test_results : r.framework_id # request.id
        /\ \A l \in DB.execution_logs :
              \A r \in before.test_results : r.framework_id = request.id => l.result_id # r.id
        /\ \A l \in DB.execution_logs : \E r \in DB.test_results : r.id = l.result_id
        /\ OthersUnchanged(request.id)

\* framework 1 had nodes, an edge, a test result and a log and is deleted;
\* framework 2 keeps its node and its edge
C12_Witness ==
    /\ request.route = "DELETE" /\ request.status = 204 /\ request.id = 1
    /\ \E r \in before.nodes : r.framework_id = 1
    /\ \E r \in before.edges : r.framework_id = 1
    /\ \E r \in before.test_results : r.framework_id = 1 /\
          \E l \in before.execution_logs : l.result_id = r.id
    /\ \E r \in DB.nodes : r.framework_id = 2
    /\ \E r \in DB.edges : r.framework_id = 2

\* C13: once PUT /frameworks/:id has completed (it answered 200), the node
\* rows and the edge rows stored for that framework are exactly those of the
\* request body, and the rows of the other frameworks are as they were.
C13_PutReplaces ==
    (request.route = "PUT" /\ request.status = 200) =>
        /\ {r \in DB.nodes : r.framework_id = request.id}
             = {NodeRow(request.id, request.body.nodes[k]) : k \in 1..Len(request.body.nodes)}
        /\ {r \in DB.edges : r.framework_id = request.id}
             = {EdgeRow(request.id, request.body.edges[k]) : k \in 1..Len(request.body.edges)}
        /\ OthersUnchanged(request.id)
        /\ DB.frameworks = before.frameworks
        /\ DB.test_results = before.test_results
        /\ DB.execution_logs = before.execution_logs

\* framework 1 held the skeleton and is saved as the chain (the 'output'
\* node gone, an agent and an edge new), while framework 2 holds a node and
\* an edge of its own
C13_Witness ==
    /\ request.route = "PUT" /\ request.status = 200 /\ request.id = 1
    /\ request.body = ChainBody
    /\ {r.id : r \in {n \in before.nodes : n.framework_id = 1}} = {"input", "output"}
    /\ {r.id : r \in {n \in DB.nodes : n.framework_id = 1}} = {"input", "agent1"}
    /\ {r.id : r \in {e \in DB.edges : e.framework_id = 1}} = {"e1"}
    /\ \E r \in DB.nodes : r.framework_id = 2
    /\ \E r \in DB.edges : r.framework_id = 2

\* C14: node ids need be unique within a framework only: in a sequence of
\* POST /frameworks calls that each carry the two-node skeleton, every call
\* answers 201 and every framework created is stored with its 'input' and
\* its 'output' node.
C14_SkeletonPostsSucceed ==
    (skeletonOnly /\ Idle) =>
        /\ request.route = "POST" => request.status = 201
        /\ \A id \in 1..uuids :
              /\ id \in DB.frameworks
              /\ \A k \in 1..Len(SkeletonBody.nodes) :
                    NodeRow(id, SkeletonBody.nodes[k]) \in DB.nodes

\* the first POST of the skeleton does succeed
C14_FirstPost ==
    (skeletonOnly /\ Idle /\ uuids = 1) =>
        /\ request.status = 201
        /\ DB.nodes = {NodeRow(1, SkeletonBody.nodes[k]) : k \in 1..2}

\* ------------------------------------------------------------- raceModels
\* src/worker/lib/openrouter.ts lines 87-101

MaxModels == 2

\* the `messages` argument: one user message with this content
RacePrompt == "hello"

\* The ids a caller can list: one of the pricing table, one that is offered
\* and priced at the default rate, one that is neither.
RaceModelIds ==
    {"meta-llama/llama-3.3-70b-instruct:free",
     "google/gemini-2.0-flash-exp:free",
     "acme/unlisted-1"}

\* callOpenRouter(...).then(result => ({ result, model })) before it settles
PendingCall ==
    [state |-> "pending", value |-> [result |-> NoResponse, model |-> ""], reason |-> ""]

\* ... fulfilled: lines 64-84, then the `then` callback of line 96
FulfilledCall(model, data) ==
    [state |-> "fulfilled",
     value |-> [result |-> OpenRouterResponse(model, data), model |-> model],
     reason |-> ""]

\* ... rejected: fetch rejects or line 61 throws; the `then` callback is skipped
RejectedCall(failure) ==
    [state |-> "rejected", value |-> [result |-> NoResponse, model |-> ""],
     reason |-> failure.message]

FollowFirstFulfilled(race, call) ==
    IF race.state # "pending" \/ call.state = "rejected" THEN race
    ELSE [state |-> call.state, value |-> call.value.result, reason |-> call.reason]

FollowLast(race, call) ==
    [state |-> call.state, value |-> call.value.result, reason |-> call.reason]

\* Promise.race(promises) follows the first promise to settle, and
\* `const { result } = await ...; return result` hands its result on (a
\* rejection is rethrown by the await)
FollowFirst(race, call) ==
    IF race.state # "pending" THEN race
    ELSE [state |-> call.state, value |-> call.value.result, reason |-> call.reason]

\* lines 93-99 up to the await: models.map calls callOpenRouter for every
\* entry of the list, each call runs to its fetch, and Promise.race over the
\* promises is pending
RaceModels ==
    /\ raced.state = "idle"
    /\ promises' = [k \in 1..Len(models) |-> PendingCall]
    /\ raced' = [NotRacing EXCEPT !.state = "pending"]
    /\ UNCHANGED <<models, settled, runVars, storeVars, readVars, editorVars, typeVars>>

Settle(k, call) ==
    /\ k \in 1..Len(promises)
    /\ promises[k].state = "pending"
    /\ promises' = [promises EXCEPT ![k] = call]
    /\ settled' = Append(settled, k)
    /\ raced' = FollowFirst(raced, call)
    /\ UNCHANGED <<models, runVars, storeVars, readVars, editorVars, typeVars>>

\* the gateway answers call k with a 2xx
CallFulfils(k) ==
    \E data \in GatewayAnswers(RacePrompt) : Settle(k, FulfilledCall(models[k], data))

\* the gateway answers call k with a non-2xx, or the fetch fails
CallRejects(k) ==
    \E failure \in GatewayFailures : Settle(k, RejectedCall(failure))

InitRace ==
    /\ RunIdle
    /\ StoreIdle
    /\ OthersIdle
    /\ models \in SeqsUpTo(RaceModelIds, MaxModels)
    /\ promises = <<>>
    /\ settled = <<>>
    /\ raced = NotRacing

NextRace ==
    \/ RaceModels
    \/ \E k \in 1..MaxModels : CallFulfils(k)
    \/ \E k \in 1..MaxModels : CallRejects(k)

SpecRace == InitRace /\ [][NextRace]_vars

\* ---- C15
RaceStarted == raced.state # "idle"

Winner == settled[1]

\* every listed model has its call, and a call that succeeded carries the
\* response of its own model
OneCallPerModel ==
    RaceStarted =>
        /\ Len(promises) = Len(models)
        /\ \A k \in 1..Len(promises) :
              promises[k].state = "fulfilled" =>
                  /\ promises[k].value.model = models[k]
                  /\ \E data \in GatewayAnswers(RacePrompt) :
                        promises[k].value.result = OpenRouterResponse(models[k], data)

\* the calls are all issued by the one step that starts the race
StartedAtOnce ==
    (~RaceStarted /\ RaceStarted') =>
        /\ Len(promises') = Len(models)
        /\ \A k \in 1..Len(promises') : promises'[k] = PendingCall

\* raceModels is pending exactly while no call has settled, so it returns at
\* the first settle without waiting for the others, with that call's response
FirstWins ==
    /\ (RaceStarted /\ settled = <<>>) => raced.state = "pending"
    /\ settled # <<>> => raced.state \in {"fulfilled", "rejected"}
    /\ raced.state = "fulfilled" =>
          /\ promises[Winner].state = "fulfilled"
          /\ raced.value = promises[Winner].value.result

\* a call that lost the race is still in flight and can still be answered
LosersNotCancelled ==
    \A k \in 1..Len(promises) :
        promises[k].state = "pending" => ENABLED CallFulfils(k)

\* once raceModels has returned, a later answer changes nothing of what it
\* returned
LosersDiscarded ==
    raced.state \in {"fulfilled", "rejected"} => raced' = raced

\* C15: raceModels starts one gateway call per listed model in one step;
\* it returns the response of the call that settles first, as soon as it
\* settles; the other calls stay in flight and can still be answered, and
\* their answers (and costs) never reach what raceModels returned.
C15_RaceReturnsFirst ==
    /\ [](OneCallPerModel /\ FirstWins /\ LosersNotCancelled)
    /\ [][StartedAtOnce /\ LosersDiscarded]_vars

\* the first call to settle succeeded at no cost, the other one was answered
\* afterwards with another response that cost money, and raceModels returned
\* the first
C15_Witness ==
    /\ Len(settled) = 2
    /\ raced.state = "fulfilled"
    /\ promises[settled[2]].state = "fulfilled"
    /\ raced.value = promises[Winner].value.result
    /\ raced.value # promises[settled[2]].value.result
    /\ raced.value.usage.cost = 0
    /\ promises[settled[2]].value.result.usage.cost > 0

\* ---- C30
\* what raceModels ends with is what the first call to settle ended with
OutcomeOfFirstSettle ==
    settled # <<>> =>
        /\ raced.state = promises[Winner].state
        /\ raced.state = "fulfilled" => raced.value = promises[Winner].value.result
        /\ raced.state = "rejected" =>
              /\ raced.reason = promises[Winner].reason
              /\ \E failure \in GatewayFailures : raced.reason = failure.message

\* Promise.race over no promises stays pending
EmptyRaceNeverSettles ==
    (RaceStarted /\ models = <<>>) =>
        /\ raced.state = "pending"
        /\ ~ENABLED (NextRace /\ raced' # raced)

\* C30: the outcome of raceModels is the outcome of the first gateway call
\* to settle, a success or a failure (the failure wins even when another call
\* succeeds later), and with an empty model list raceModels stays pending
\* and no step can settle it.
C30_FirstSettleDecides == OutcomeOfFirstSettle /\ EmptyRaceNeverSettles

\* the first call to settle failed, raceModels failed with its error, and
\* the slower call then succeeded
C30_Witness ==
    /\ Len(settled) = 2
    /\ promises[Winner].state = "rejected"
    /\ raced.state = "rejected"
    /\ raced.reason = promises[Winner].reason
    /\ promises[settled[2]].state = "fulfilled"
    /\ promises[settled[2]].value.result.content = "HELLO"

\* raceModels was called with no model and is pending
C30_WitnessEmptyList == RaceStarted /\ models = <<>> /\ raced.state = "pending"

\* ------------------------------------------- reads during an update
\* GET /frameworks/:id (part_005 lines 63-76) and the load of a test run
\* (tests.ts lines 13-30) issue the same three SELECTs, each awaited, so
\* other requests' statements run between them.

StoredNodes(db, id) == {r \in db.nodes : r.framework_id = id}

StoredEdges(db, id) == {r \in db.edges : r.framework_id = id}

\* SELECT * FROM frameworks WHERE id = ?, and the 404
GetFramework ==
    /\ reader.pc = "done"
    /\ \E id \in 1..MaxUuids :
          reader' = IF id \in DB.frameworks
                    THEN [NoReader EXCEPT !.id = id, !.pc = "nodes", !.status = 0]
                    ELSE [NoReader EXCEPT !.id = id, !.status = 404]
    /\ UNCHANGED <<runVars, storeVars, raceVars, editorVars, typeVars>>

\* SELECT * FROM nodes WHERE framework_id = ?
GetNodes ==
    /\ reader.pc = "nodes"
    /\ reader' = [reader EXCEPT !.nodes = StoredNodes(DB, reader.id), !.pc = "edges"]
    /\ UNCHANGED <<runVars, storeVars, raceVars, editorVars, typeVars>>

\* SELECT * FROM edges WHERE framework_id = ?, and the answer
GetEdges ==
    /\ reader.pc = "edges"
    /\ reader' = [reader EXCEPT !.edges = StoredEdges(DB, reader.id), !.pc = "done",
                                !.status = 200]
    /\ UNCHANGED <<runVars, storeVars, raceVars, editorVars, typeVars>>

\* creating and updating frameworks, with reads in between the statements
NextUpdates ==
    \/ PostFramework
    \/ PostInsertNode
    \/ PostInsertEdge
    \/ PostReturn
    \/ PutFramework
    \/ PutDeleteNodes
    \/ PutDeleteEdges
    \/ PutInsertNode
    \/ PutInsertEdge
    \/ PutReturn
    \/ GetFramework
    \/ GetNodes
    \/ GetEdges

SpecUpdates == InitStore /\ [][NextUpdates]_vars

\* ---- C21
\* the entries of the body the insert loops have been through
InsertedNodes ==
    SubSeq(request.body.nodes, 1, Len(request.body.nodes) - Len(request.nodes))

InsertedEdges ==
    SubSeq(request.body.edges, 1, Len(request.body.edges) - Len(request.edges))

C21_WitnessStopped ==
    /\ request.route = "PUT"
    /\ request.status = 500
    /\ request.id \in DB.frameworks
    /\ StoredNodes(before, request.id) # {}
    /\ StoredNodes(DB, request.id) = {}

\* a GET that read the nodes before the PUT and the edges after it: the
\* answer mixes the old nodes with the new edges
C21_WitnessTornRead ==
    /\ request.route = "PUT"
    /\ reader.id = request.id
    /\ reader.status = 200
    /\ reader.nodes = StoredNodes(before, request.id)
    /\ reader.nodes # {}
    /\ reader.edges # StoredEdges(before, request.id)

\* ---- C23
\* the step removes the framework row
FrameworkDeleted(id) == id \in DB.frameworks /\ id \notin DB'.frameworks

\* a stored result stays as it is, or goes with its framework
ResultKept(r) ==
    \/ r \in DB'.test_results
    \/ /\ FrameworkDeleted(r.framework_id)
       /\ \A q \in DB'.test_results : q.id # r.id

\* a stored log stays as it is, or goes with its result's framework
LogKept(l) ==
    \/ l \in DB'.execution_logs
    \/ /\ \E r \in DB.test_results : r.id = l.result_id /\ FrameworkDeleted(r.framework_id)
       /\ \A q \in DB'.execution_logs : q.id # l.id

\* C23: no step of any request changes a stored test_results or
\* execution_logs row: each row is still there, unchanged, after the step,
\* unless the step deletes the framework the row belongs to; and a row that
\* appears never takes the id of a stored row.
C23_ResultsImmutable ==
    [][/\ \A r \in DB.test_results : ResultKept(r)
       /\ \A l \in DB.execution_logs : LogKept(l)
       /\ \A q \in DB'.test_results \ DB.test_results :
             \A r \in DB.test_results : q.id # r.id
       /\ \A q \in DB'.execution_logs \ DB.execution_logs :
             \A l \in DB.execution_logs : q.id # l.id]_vars

\* a framework with a stored result and a log of it has been updated by a
\* PUT that replaced its graph, and the result and the log are still stored
C23_Witness ==
    /\ request.route = "PUT"
    /\ request.status = 200
    /\ StoredNodes(DB, request.id) # StoredNodes(before, request.id)
    /\ \E r \in DB.test_results :
          /\ r.framework_id = request.id
          /\ r \in before.test_results
          /\ \E l \in DB.execution_logs : l.result_id = r.id /\ l \in before.execution_logs

\* --------------------------------------------- the test route and its run
\* POST /tests/:frameworkId/run with the run of executeFramework in it:
\* src/worker/routes/tests.ts lines 9-97

\* the tables when framework `id` is stored with this graph
StoredFramework(id, ns, es) ==
    [EmptyDB EXCEPT
        !.frameworks = {id},
        !.nodes = {[id |-> ns[i].id, framework_id |-> id, type |-> ns[i].type,
                    label |-> ns[i].label, custom_code |-> ns[i].custom_code] :
                   i \in DOMAIN ns},
        !.edges = {[id |-> i, framework_id |-> id, source_id |-> es[i].source_id,
                    target_id |-> es[i].target_id] : i \in DOMAIN es}]

\* what `framework`, `nodes.results` and `edges.results` of lines 13-30 hold
\* is the stored framework 1
InitTestRoute ==
    /\ \E ns \in {l \in NodeLists : Len(l) <= MaxSettlingNodes} :
          \E es \in SeqsUpTo(EdgeRows(ns), MaxSettlingEdges) :
             /\ framework = [nodes |-> ns, edges |-> es]
             /\ DB = StoredFramework(1, ns, es)
    /\ testInput \in TestInputs
    /\ RunStarts
    /\ uuids = 1
    /\ request = NoRequest
    /\ before = DB
    /\ skeletonOnly = FALSE
    /\ OthersIdle
    /\ RaceIdle

\* lines 9-20: the request arrives; 404 when the framework row is missing
TestRoutePost ==
    /\ request.route = "none"
    /\ \E frameworkId \in 1..2 :
          request' = IF frameworkId \in DB.frameworks
                     THEN NewRequest("RUN", frameworkId, EmptyBody, "run")
                     ELSE [NewRequest("RUN", frameworkId, EmptyBody, "done")
                              EXCEPT !.status = 404]
    /\ UNCHANGED <<DB, uuids, before, skeletonOnly, runVars, raceVars, readVars,
                   editorVars, typeVars>>

\* lines 32-42: `await executeFramework(...)`
TestRouteExecutes ==
    /\ Serving("RUN", "run")
    /\ Next

\* the INSERT that stores every run as completed
TestRouteInsertResultAsCompleted ==
    /\ Serving("RUN", "run")
    /\ pc = "done"
    /\ DB' = [DB EXCEPT !.test_results =
                 @ \cup {[id |-> uuids + 1, framework_id |-> request.id,
                          status |-> "completed", success |-> 1]}]
    /\ uuids' = uuids + 1
    /\ request' = [request EXCEPT !.resultId = uuids + 1, !.pc = "logs",
                                  !.logs = Len(result.logs)]
    /\ UNCHANGED <<before, skeletonOnly, runVars, raceVars, readVars, editorVars, typeVars>>

\* lines 44-63: INSERT INTO test_results once executeFramework has returned
TestRouteInsertResult ==
    /\ Serving("RUN", "run")
    /\ pc = "done"
    /\ DB' = [DB EXCEPT !.test_results =
                 @ \cup {[id |-> uuids + 1, framework_id |-> request.id,
                          status |-> result.status,
                          success |-> IF result.success THEN 1 ELSE 0]}]
    /\ uuids' = uuids + 1
    /\ request' = [request EXCEPT !.resultId = uuids + 1, !.pc = "logs",
                                  !.logs = Len(result.logs)]
    /\ UNCHANGED <<before, skeletonOnly, runVars, raceVars, readVars, editorVars, typeVars>>

\* the entry of result.logs the loop of line 65 is at
NextLog == result.logs[Len(result.logs) - request.logs + 1]

\* lines 65-82: one INSERT INTO execution_logs per entry of result.logs
TestRouteInsertLog ==
    /\ Serving("RUN", "logs")
    /\ request.logs > 0
    /\ DB' = [DB EXCEPT !.execution_logs =
                 @ \cup {[id |-> uuids + 1, result_id |-> request.resultId,
                          node_id |-> NextLog.nodeId,
                          error |-> IF "error" \in DOMAIN NextLog THEN NextLog.error ELSE ""]}]
    /\ uuids' = uuids + 1
    /\ request' = [request EXCEPT !.logs = @ - 1]
    /\ UNCHANGED <<before, skeletonOnly, runVars, raceVars, readVars, editorVars, typeVars>>

\* lines 84-97
TestRouteReturn ==
    /\ Serving("RUN", "logs")
    /\ request.logs = 0
    /\ Ends(200)
    /\ UNCHANGED <<DB, uuids, before, skeletonOnly, runVars, raceVars, readVars,
                   editorVars, typeVars>>

NextTestRoute ==
    \/ TestRoutePost
    \/ TestRouteExecutes
    \/ TestRouteInsertResult
    \/ TestRouteInsertLog
    \/ TestRouteReturn

SpecTestRoute == InitTestRoute /\ [][NextTestRoute]_vars

\* ---- C28
NewResults == DB.test_results \ before.test_results

NewLogs == DB.execution_logs \ before.execution_logs

\* everything but the two result tables is as the request found it
OnlyResultsAdded ==
    /\ DB.frameworks = before.frameworks
    /\ DB.nodes = before.nodes
    /\ DB.edges = before.edges
    /\ before.test_results \subseteq DB.test_results
    /\ before.execution_logs \subseteq DB.execution_logs

C28_WitnessFailedRun ==
    /\ request.status = 200
    /\ request.route = "RUN"
    /\ result.status = "failed"
    /\ \E r \in NewResults : r.status = "failed" /\ r.success = 0
    /\ NewLogs = {}

\* the 404
C28_WitnessNotFound == request.status = 404 /\ DB = before /\ DB.frameworks # {}

\* --------------------------------------------------------------- C24
\* an order over the nodes with no id twice
NoRepeat(order) ==
    /\ IsInjective(order)
    /\ Range(order) \subseteq Ids
    /\ Len(order) <= Len(Nodes)

\* C24: when every edge starts at a node, buildExecutionOrder returns,
\* cyclic graph or not: its value exists before the run's first step and
\* the first step stores it without failing the run.  The order holds node
\* ids only, none of them twice, so at most one entry per node; duplicate
\* edges and self-loops included.
C24_OrderTerminatesNoRepeat ==
    EdgeSourcesAreNodes =>
        /\ pc = "start" => NoRepeat(buildExecutionOrder(Nodes, Edges))
        /\ pc # "start" => OrderBuilt /\ NoRepeat(executionOrder)

\* the same edge twice: its target is ordered once, after its source
C24_Witness ==
    /\ Len(Edges) = 2
    /\ Edges[1] = Edges[2]
    /\ Edges[1].source_id # Edges[1].target_id
    /\ Len(Nodes) = 3
    /\ pc = "done"
    /\ Len(executionOrder) = 3
    /\ IndexOf(executionOrder, Edges[1].source_id) < IndexOf(executionOrder, Edges[1].target_id)

\* a self-loop twice: the order is built and the node is not in it
C24_WitnessSelfLoops ==
    /\ Len(Edges) = 2
    /\ Edges[1] = Edges[2]
    /\ Edges[1].source_id = Edges[1].target_id
    /\ pc = "done"
    /\ Len(executionOrder) = Len(Nodes) - 1

\* --------------------------------------------------------------- C25
\* C25: when a run returns 'completed', nodeTimings and nodeOutputs have the
\* same keys, the node ids of the execution order; logs has one entry per
\* node of the order, in that order; an entry has an error field exactly
\* when executeNode threw for its node; and the result returns these maps
\* and logs.
C25_CompletedRunBookkeeping ==
    (pc = "done" /\ result.status = "completed") =>
        /\ DOMAIN nodeTimings = Range(executionOrder)
        /\ DOMAIN nodeOutputs = Range(executionOrder)
        /\ [k \in 1..Len(logs) |-> logs[k].nodeId] = executionOrder
        /\ Len(calls) = Len(logs)
        /\ \A k \in 1..Len(logs) :
              /\ calls[k].nodeId = logs[k].nodeId
              /\ ("error" \in DOMAIN logs[k]) = calls[k].threw
        /\ result.nodeTimings = nodeTimings
        /\ result.nodeOutputs = nodeOutputs
        /\ result.logs = logs

\* three nodes ran, executeNode threw for one of them (the gateway failed)
\* and returned for the others, one of which is a script that threw inside
C25_Witness ==
    /\ pc = "done"
    /\ result.status = "completed"
    /\ Len(logs) = 3
    /\ \E k \in 1..3 : "error" \in DOMAIN logs[k]
    /\ \E k \in 1..3 : logs[k].nodeId = "bad" /\ "error" \notin DOMAIN logs[k]
    /\ Cardinality(DOMAIN nodeTimings) = 3

\* --------------------------------------------------------------- C26
\* some node on a cycle reaches the node
BehindCycle(nodeId) == \E m \in Ids : OnCycle(m) /\ Reaches(m, nodeId, Len(Edges))

\* the node line 310 selects: the first one of type 'output' or with
\* "output" in its label
OutputNodes ==
    SelectSeq(Nodes, LAMBDA n : n.type = "output" \/ includes(toLowerCase(n.label), "output"))

\* C26: in a graph (every edge starts at a node), a node that is not on a
\* cycle but is reached from a node on a cycle is left out of the execution
\* order and never executed (no output, no timing, no log, no call); the
\* order holds exactly the nodes no cycle reaches; and when the node
\* selected as terminal output is left out in this way the run still
\* completes and returns the empty string.
C26_BehindCycleLeftOut ==
    EdgeSourcesAreNodes =>
        /\ \A n \in Ids :
              (~OnCycle(n) /\ BehindCycle(n)) =>
                  /\ n \notin Range(executionOrder)
                  /\ n \notin DOMAIN nodeOutputs
                  /\ n \notin DOMAIN nodeTimings
                  /\ n \notin Logged
                  /\ \A k \in 1..Len(inflight) : inflight[k].nodeId # n
        /\ OrderBuilt => Range(executionOrder) = {n \in Ids : ~BehindCycle(n)}
        /\ pc = "done" =>
              /\ result.status = "completed"
              /\ (/\ Len(OutputNodes) > 0
                  /\ ~OnCycle(OutputNodes[1].id)
                  /\ BehindCycle(OutputNodes[1].id)) => result.output = ""

\* the node "1" feeds itself and the output node; the input node is the
\* only node that ran, it produced "hello", and the run returned ""
C26_Witness ==
    /\ NodeIds(Nodes) = <<"input", "1", "output">>
    /\ Edges = <<[source_id |-> "1", target_id |-> "1"],
                 [source_id |-> "1", target_id |-> "output"]>>
    /\ testInput = "hello"
    /\ pc = "done"
    /\ result.status = "completed"
    /\ executionOrder = <<"input">>
    /\ nodeOutputs["input"] = "hello"
    /\ result.output = ""

\* --------------------------------------------------------------- C27
EdgeTargetsAreNodes == \A k \in 1..Len(Edges) : Edges[k].target_id \in Ids

\* the edge list without the edges to a missing target
EdgesToNodes == SelectSeq(Edges, LAMBDA e : e.target_id \in Ids)

SourcesOf(byTarget, nodeId) == IF nodeId \in DOMAIN byTarget THEN byTarget[nodeId] ELSE <<>>

\* C27: an edge whose source is no node makes the run fail before any node
\* executes: nothing is ordered, called, logged or recorded, and the result
\* is 'failed', success false, with empty logs and zero totals.  An edge
\* whose target is no node (every source being a node) raises no error: the
\* order and every node's sources are those of the same framework without
\* that edge, and the run completes.
C27_MissingEndpoints ==
    /\ ~EdgeSourcesAreNodes =>
          /\ pc \in {"start", "done"}
          /\ executionOrder = <<>> /\ calls = <<>> /\ inflight = <<>> /\ logs = <<>>
          /\ DOMAIN nodeOutputs = {} /\ DOMAIN nodeTimings = {}
          /\ pc = "done" =>
                /\ result.status = "failed"
                /\ ~result.success
                /\ result.logs = <<>>
                /\ result.totalTokens = 0
                /\ result.totalCost = 0
                /\ result.output = "Execution failed: " \o PushOfUndefined
    /\ (EdgeSourcesAreNodes /\ ~EdgeTargetsAreNodes) =>
          /\ pc # "start" =>
                /\ executionOrder = buildExecutionOrder(Nodes, EdgesToNodes)
                /\ \A n \in Ids :
                      SourcesOf(edgesByTarget, n) =
                         SourcesOf(BuildEdgesByTarget(EdgesToNodes), n)
          /\ pc = "done" => result.status = "completed" /\ result.success

\* a framework of three nodes with an edge from a missing source after a
\* sound edge: the run failed and nothing ran
C27_Witness ==
    /\ Len(Nodes) = 3
    /\ Len(Edges) = 2
    /\ Edges[1].source_id \in Ids /\ Edges[1].target_id \in Ids
    /\ Edges[2].source_id = GhostId
    /\ pc = "done"
    /\ result.status = "failed"
    /\ result.logs = <<>>
    /\ calls = <<>>

\* an edge from the input node to a missing target next to a sound edge:
\* all three nodes ran in order and the run completed
C27_WitnessMissingTarget ==
    /\ NodeIds(Nodes) = <<"input", "fmt", "output">>
    /\ Edges = <<[source_id |-> "input", target_id |-> GhostId],
                 [source_id |-> "input", target_id |-> "fmt"]>>
    /\ testInput = "hello"
    /\ pc = "done"
    /\ result.status = "completed"
    /\ executionOrder = <<"input", "output", "fmt">>
    /\ nodeOutputs["fmt"] = "HELLO"

\* ------------------------------------------------------ the visual editor
\* src/client/src/components/FrameworkEditor.js

MaxClock == 1

MaxEditorNodes == 3

MaxEditorEdges == 2

\* the palette types used here and their NODE_TYPES_CONFIG labels
PaletteLabel(type) == CASE type = "agent" -> "Agent" [] type = "processor" -> "Processor"

PaletteTypes == {"agent", "processor"}

\* lines 127-133: the state the component mounts with
Mount(body) ==
    [nodes |-> [i \in DOMAIN body.nodes |->
                   [id |-> body.nodes[i].id,
                    type |-> IF body.nodes[i].type # "" THEN body.nodes[i].type ELSE "processor",
                    label |-> body.nodes[i].label]],
     edges |-> [i \in DOMAIN body.edges |->
                   [id |-> body.edges[i].id, source |-> body.edges[i].source,
                    target |-> body.edges[i].target]]]

EditorIds == {editor.nodes[i].id : i \in DOMAIN editor.nodes}

\* `${type}-${Date.now()}`
StampedId(type) == type \o "-" \o ToString(clock)

\* addEdge of the flow library: nothing when the connection exists already,
\* otherwise the edge is appended under the library's id
addEdge(params, eds) ==
    IF \E i \in DOMAIN eds : eds[i].source = params.source /\ eds[i].target = params.target
    THEN eds
    ELSE Append(eds, [id |-> "reactflow__edge-" \o params.source \o "-" \o params.target,
                      source |-> params.source, target |-> params.target])

\* time passes between two clicks
Tick ==
    /\ clock < MaxClock
    /\ clock' = clock + 1
    /\ UNCHANGED <<editor, runVars, storeVars, raceVars, readVars, typeVars>>

\* lines 142-154: the user drags from a node's handle to a node's handle
onConnect ==
    /\ Len(editor.edges) < MaxEditorEdges
    /\ \E source \in EditorIds : \E target \in EditorIds :
          editor' = [editor EXCEPT
                        !.edges = addEdge([source |-> source, target |-> target], @)]
    /\ UNCHANGED <<clock, runVars, storeVars, raceVars, readVars, typeVars>>

\* lines 156-175
addNode ==
    /\ Len(editor.nodes) < MaxEditorNodes
    /\ \E type \in PaletteTypes :
          LET count == Len(SelectSeq(editor.nodes, LAMBDA n : n.type = type))
              newNode == [id |-> StampedId(type), type |-> type,
                          label |-> PaletteLabel(type) \o " " \o ToString(count + 1)]
          IN  editor' = [editor EXCEPT !.nodes = Append(@, newNode)]
    /\ UNCHANGED <<clock, runVars, storeVars, raceVars, readVars, typeVars>>

\* deleteNode dropping only the edges that start at the node
deleteNodeKeepsIncoming ==
    /\ \E nodeId \in EditorIds :
          editor' = [nodes |-> SelectSeq(editor.nodes, LAMBDA n : n.id # nodeId),
                     edges |-> SelectSeq(editor.edges, LAMBDA e : e.source # nodeId)]
    /\ UNCHANGED <<clock, runVars, storeVars, raceVars, readVars, typeVars>>

\* lines 177-183
deleteNode ==
    /\ \E nodeId \in EditorIds :
          editor' = [nodes |-> SelectSeq(editor.nodes, LAMBDA n : n.id # nodeId),
                     edges |-> SelectSeq(editor.edges,
                                  LAMBDA e : e.source # nodeId /\ e.target # nodeId)]
    /\ UNCHANGED <<clock, runVars, storeVars, raceVars, readVars, typeVars>>

\* lines 195-207, with the label as the update
updateNode ==
    /\ \E nodeId \in EditorIds : \E label \in {"Renamed"} :
          editor' = [editor EXCEPT
                        !.nodes = [i \in DOMAIN @ |->
                                      IF @[i].id = nodeId THEN [@[i] EXCEPT !.label = label]
                                      ELSE @[i]]]
    /\ UNCHANGED <<clock, runVars, storeVars, raceVars, readVars, typeVars>>

\* lines 220-229
duplicateNode ==
    /\ Len(editor.nodes) < MaxEditorNodes
    /\ \E i \in DOMAIN editor.nodes :
          LET node == editor.nodes[i]
              newNode == [node EXCEPT !.id = StampedId(node.type),
                                      !.label = node.label \o " (copy)"]
          IN  editor' = [editor EXCEPT !.nodes = Append(@, newNode)]
    /\ UNCHANGED <<clock, runVars, storeVars, raceVars, readVars, typeVars>>

\* the editor is opened on a stored framework
InitEditor ==
    /\ \E body \in Bodies : editor = Mount(body)
    /\ clock = 0
    /\ RunIdle
    /\ StoreIdle
    /\ RaceIdle
    /\ ReaderIdle
    /\ TypesIdle

NextEditor ==
    \/ Tick
    \/ onConnect
    \/ addNode
    \/ deleteNode
    \/ updateNode
    \/ duplicateNode

SpecEditor == InitEditor /\ [][NextEditor]_vars

\* ---- C22
\* every edge of the editor joins two nodes of the editor
EdgesJoinPresentNodes ==
    \A i \in DOMAIN editor.edges :
        editor.edges[i].source \in EditorIds /\ editor.edges[i].target \in EditorIds

\* the ids a step takes out of the editor
Removed == EditorIds \ {editor'.nodes[i].id : i \in DOMAIN editor'.nodes}

\* a step that removes a node removes one id, the nodes carrying it and the
\* edges incident to it, and keeps every other node and edge as it was; a
\* step that removes no node removes no edge
RemovalIsExact ==
    IF Removed # {}
    THEN /\ Cardinality(Removed) = 1
         /\ editor'.nodes = SelectSeq(editor.nodes, LAMBDA n : n.id \notin Removed)
         /\ editor'.edges = SelectSeq(editor.edges,
                               LAMBDA e : e.source \notin Removed /\ e.target \notin Removed)
    ELSE /\ Len(editor'.nodes) >= Len(editor.nodes)
         /\ Len(editor'.edges) >= Len(editor.edges)
         /\ SubSeq(editor'.edges, 1, Len(editor.edges)) = editor.edges

\* C22: starting from a framework whose edges join existing nodes, after any
\* sequence of addNode, duplicateNode, onConnect, updateNode and deleteNode
\* every edge's source and target is the id of a node still in the editor;
\* a step that removes a node removes that node and exactly the edges
\* incident to it, and no other step removes a node or an edge.
C22_EdgesJoinPresentNodes == []EdgesJoinPresentNodes /\ [][RemovalIsExact]_vars

\* the input node of the stored chain was deleted and its edge went with
\* it, while an edge drawn between two other nodes stayed
C22_Witness ==
    /\ "input" \notin EditorIds
    /\ "agent1" \in EditorIds
    /\ Len(editor.nodes) = 2
    /\ Len(editor.edges) = 1
    /\ editor.edges[1].source = "agent1"
    /\ editor.edges[1].target # "agent1"

\* two nodes added within the same millisecond carry the same id, and an
\* edge joins that id
C22_WitnessSameMillisecond ==
    /\ \E i, j \in DOMAIN editor.nodes : i # j /\ editor.nodes[i].id = editor.nodes[j].id
    /\ \E k \in DOMAIN editor.edges : editor.edges[k].target = "agent-0"

\* ------------------------------------------------- the node-type catalogue
\* src/worker/routes/node-types.ts

MaxTypes == 2

\* BUILTIN_TYPES, lines 8-124: id, name, category (builtin: true)
BUILTIN_TYPES ==
    <<[id |-> "input", name |-> "Input", category |-> "io", builtin |-> TRUE],
      [id |-> "output", name |-> "Output", category |-> "io", builtin |-> TRUE],
      [id |-> "agent", name |-> "Agent", category |-> "agent", builtin |-> TRUE],
      [id |-> "processor", name |-> "Processor", category |-> "processor", builtin |-> TRUE],
      [id |-> "decision", name |-> "Decision", category |-> "router", builtin |-> TRUE],
      [id |-> "parallel", name |-> "Parallel", category |-> "control", builtin |-> TRUE],
      [id |-> "merge", name |-> "Merge", category |-> "control", builtin |-> TRUE],
      [id |-> "loop", name |-> "Loop", category |-> "control", builtin |-> TRUE],
      [id |-> "retry", name |-> "Retry", category |-> "control", builtin |-> TRUE]>>

\* BUILTIN_TYPES.some(t => t.id === id)
IsBuiltin(id) == \E i \in DOMAIN BUILTIN_TYPES : BUILTIN_TYPES[i].id = id

\* the bodies of POST: with an id of its own, with the id of a builtin type,
\* or with none; with a category or without
TypeBodies == [id : {"", "agent", "custom1"}, name : {"Mine"}, category : {"", "io"}]

\* the ids PUT and DELETE are called with
TypeIds == {"agent", "retry", "custom1", "1"}

\* lines 131-137: a row as GET returns it
CustomType(t) == [id |-> t.id, name |-> t.name, category |-> t.category, builtin |-> FALSE]

\* GET /node-types, lines 126-141; the rows come newest first
GetNodeTypes ==
    /\ typeRequest' = [route |-> "GET", id |-> "", status |-> 200,
                       body |-> BUILTIN_TYPES \o
                                  [i \in DOMAIN node_types |-> CustomType(node_types[i])]]
    /\ UNCHANGED <<node_types, runVars, storeVars, raceVars, readVars, editorVars>>

\* POST /node-types, lines 144-161: the INSERT is rejected when the id is
\* already a row's (PRIMARY KEY)
PostNodeType ==
    /\ Len(node_types) < MaxTypes
    /\ uuids < MaxUuids
    /\ \E body \in TypeBodies :
          LET id == IF body.id # "" THEN body.id ELSE ToString(uuids + 1)
              row == [id |-> id, name |-> body.name,
                      category |-> IF body.category # "" THEN body.category ELSE "custom"]
          IN  /\ uuids' = IF body.id # "" THEN uuids ELSE uuids + 1
              /\ IF \E i \in DOMAIN node_types : node_types[i].id = id
                 THEN /\ typeRequest' = [route |-> "POST", id |-> id, status |-> 500,
                                         body |-> <<>>]
                      /\ UNCHANGED node_types
                 ELSE /\ typeRequest' = [route |-> "POST", id |-> id, status |-> 201,
                                         body |-> <<>>]
                      /\ node_types' = <<row>> \o node_types
    /\ UNCHANGED <<DB, request, before, skeletonOnly, runVars, raceVars, readVars, editorVars>>

\* the update without the builtin check
PutNodeTypeUnchecked ==
    /\ \E id \in TypeIds :
          /\ typeRequest' = [route |-> "PUT", id |-> id, status |-> 200, body |-> <<>>]
          /\ node_types' = [i \in DOMAIN node_types |->
                               IF node_types[i].id = id
                               THEN [node_types[i] EXCEPT !.name = "Renamed", !.category = "io"]
                               ELSE node_types[i]]
    /\ UNCHANGED <<runVars, storeVars, raceVars, readVars, editorVars>>

\* PUT /node-types/:id, lines 164-187
PutNodeType ==
    /\ \E id \in TypeIds :
          IF IsBuiltin(id)
          THEN /\ typeRequest' = [route |-> "PUT", id |-> id, status |-> 400, body |-> <<>>]
               /\ UNCHANGED node_types
          ELSE /\ typeRequest' = [route |-> "PUT", id |-> id, status |-> 200, body |-> <<>>]
               /\ node_types' = [i \in DOMAIN node_types |->
                                    IF node_types[i].id = id
                                    THEN [node_types[i] EXCEPT !.name = "Renamed",
                                                               !.category = "io"]
                                    ELSE node_types[i]]
    /\ UNCHANGED <<runVars, storeVars, raceVars, readVars, editorVars>>

\* DELETE /node-types/:id, lines 190-200
DeleteNodeType ==
    /\ \E id \in TypeIds :
          IF IsBuiltin(id)
          THEN /\ typeRequest' = [route |-> "DELETE", id |-> id, status |-> 400,
                                  body |-> <<>>]
               /\ UNCHANGED node_types
          ELSE /\ typeRequest' = [route |-> "DELETE", id |-> id, status |-> 204,
                                  body |-> <<>>]
               /\ node_types' = SelectSeq(node_types, LAMBDA t : t.id # id)
    /\ UNCHANGED <<runVars, storeVars, raceVars, readVars, editorVars>>

InitTypes ==
    /\ TypesIdle
    /\ RunIdle
    /\ StoreIdle
    /\ RaceIdle
    /\ ReaderIdle
    /\ EditorIdle

NextTypes ==
    \/ GetNodeTypes
    \/ PostNodeType
    \/ PutNodeType
    \/ DeleteNodeType

SpecTypes == InitTypes /\ [][NextTypes]_vars

\* ---- C29
\* the step serves a PUT or a DELETE on the id of a builtin type
BuiltinTargeted ==
    /\ typeRequest'.route \in {"PUT", "DELETE"}
    /\ IsBuiltin(typeRequest'.id)

\* what the last GET answered: the nine builtin types as declared, then the
\* rows of the table, marked builtin: false
CatalogueAnswered ==
    typeRequest.route = "GET" =>
        /\ typeRequest.status = 200
        /\ Len(BUILTIN_TYPES) = 9
        /\ SubSeq(typeRequest.body, 1, 9) = BUILTIN_TYPES
        /\ \A i \in 1..9 : typeRequest.body[i].builtin
        /\ Len(typeRequest.body) = 9 + Len(node_types)
        /\ \A i \in DOMAIN node_types :
              typeRequest.body[9 + i] = CustomType(node_types[i])

C29_WitnessCatalogue ==
    /\ typeRequest.route = "GET"
    /\ Len(typeRequest.body) = 11
    /\ \E i \in 10..11 : typeRequest.body[i].name = "Renamed"
    /\ \E i \in 10..11 : typeRequest.body[i].id = "agent" /\ ~typeRequest.body[i].builtin

====
